---------------------------- MODULE Spec2Model ----------------------------
(***************************************************************************)
(* A model of the streaming chat client (src-tauri/src/ollama.rs) and of   *)
(* the agent loop (src-tauri/src/agent.rs) of luup.                        *)
(*                                                                         *)
(* Text is modelled as a sequence of one-character strings, so that        *)
(* starts_with, contains, lines, trim, strip_prefix and push_str are       *)
(* computed on characters as the Rust code computes them.  A JSON value is *)
(* a record [t, v]: t is the type tag, v the payload.                      *)
(***************************************************************************)
EXTENDS Integers, Sequences, FiniteSets, TLC

VARIABLES
    body,                  \* the bytes of the HTTP response body the server sends
    pos,                   \* how many of them the transport has delivered
    transport,             \* "none" | "open" | "failed" | "closed"
    buffer,                \* parse_stream: the unfold state's buffer
    yielded,               \* parse_stream: the items yielded so far
    conversation_history,  \* Agent.conversation_history
    current_state,         \* the GameState the caller owns
    pc,                    \* process_action: "idle" | "draining" | "ok" | "err"
    accumulated_text,      \* process_action: local
    accumulated_reasoning, \* process_action: local
    emitted,               \* the AgentMessages passed to emit by this invocation
    turn_number,           \* process_action: the turn_number argument
    text,                  \* extract_choices: the argument
    choices,               \* extract_choices: the value returned
    game_history,          \* AppState.game_history
    agent,                 \* AppState.agent: its conversation_history
    current_game_state,    \* AppState.current_game_state
    task,                  \* the locals of each submit_action_stream in flight
    tool_call,             \* execute_tool: tool_name and arguments
    tool_state,            \* execute_tool: the GameState behind state
    tool_result,           \* execute_tool: the value returned
    mutex,                 \* the four Mutex of AppState: the thread holding each
    thread                 \* the command each thread runs, and how far it is

vars == <<body, pos, transport, buffer, yielded, conversation_history,
          current_state, pc, accumulated_text, accumulated_reasoning,
          emitted, turn_number, text, choices, game_history, agent,
          current_game_state, task, tool_call, tool_state, tool_result,
          mutex, thread>>

transportVars == <<body, pos, transport, buffer, yielded>>
agentVars == <<conversation_history, current_state, pc, accumulated_text,
               accumulated_reasoning, emitted, turn_number>>
choiceVars == <<text, choices>>
appVars == <<game_history, agent, current_game_state, task>>
toolVars == <<tool_call, tool_state, tool_result>>
lockVars == <<mutex, thread>>

---------------------------------------------------------------------------
(* Bounds of the model. *)

\* the most NDJSON lines in a response body
MaxLines == 2

\* the most lines in a text handed to extract_choices directly
MaxTextLines == 4

\* the most calls of process_action on one Agent between two calls of
\* start_new_game
\* the turns game_history may hold
MaxRecords == 2

MaxCalls == 2

---------------------------------------------------------------------------
(* String constants of the source and the sample message contents. *)

\* "tool_calls"
K_tool_calls ==
    <<"t", "o", "o", "l", "_", "c", "a", "l", "l", "s">>

\* "function"
K_function ==
    <<"f", "u", "n", "c", "t", "i", "o", "n">>

\* "name"
K_name ==
    <<"n", "a", "m", "e">>

\* "arguments"
K_arguments ==
    <<"a", "r", "g", "u", "m", "e", "n", "t", "s">>

\* "time"
K_time ==
    <<"t", "i", "m", "e">>

\* "location"
K_location ==
    <<"l", "o", "c", "a", "t", "i", "o", "n">>

\* "outfit"
K_outfit ==
    <<"o", "u", "t", "f", "i", "t">>

\* "set_time"
S_set_time ==
    <<"s", "e", "t", "_", "t", "i", "m", "e">>

\* "set_location"
S_set_location ==
    <<"s", "e", "t", "_", "l", "o", "c", "a", "t", "i", "o", "n">>

\* "set_outfit"
S_set_outfit ==
    <<"s", "e", "t", "_", "o", "u", "t", "f", "i", "t">>

\* "<think>"
S_think ==
    <<"<", "t", "h", "i", "n", "k", ">">>

\* "reasoning:"
S_reasoning ==
    <<"r", "e", "a", "s", "o", "n", "i", "n", "g", ":">>

\* "Morning"
S_Morning ==
    <<"M", "o", "r", "n", "i", "n", "g">>

\* "Mysterious Room"
S_MysteriousRoom ==
    <<"M", "y", "s", "t", "e", "r", "i", "o", "u", "s", " ", "R", "o", "o", "m">>

\* "Traveler's Cloak"
S_TravelersCloak ==
    <<"T", "r", "a", "v", "e", "l", "e", "r", "'", "s", " ", "C", "l", "o", "a", "k">>

\* "Go"
C_narrative ==
    <<"G", "o">>

\* "1. A\n2. B"
C_choices12 ==
    <<"1", ".", " ", "A", "\n", "2", ".", " ", "B">>

\* "\n3) C"
C_choice3 ==
    <<"\n", "3", ")", " ", "C">>

\* "<think>hm"
C_think ==
    <<"<", "t", "h", "i", "n", "k", ">", "h", "m">>

\* "a reasoning: b"
C_reasoning ==
    <<"a", " ", "r", "e", "a", "s", "o", "n", "i", "n", "g", ":", " ", "b">>

\* "7"
C_number ==
    <<"7">>

\* "{\"tool_calls\":[{\"function\":{\"name\":\"set_time\",\"arguments\":{\"time\":\"Night\"}}}]}"
C_tool_set_time ==
    <<"{", "\"", "t", "o", "o", "l", "_", "c", "a", "l", "l", "s", "\"", ":", "[", "{", "\"",
    "f", "u", "n", "c", "t", "i", "o", "n", "\"", ":", "{", "\"", "n", "a", "m", "e", "\"",
    ":", "\"", "s", "e", "t", "_", "t", "i", "m", "e", "\"", ",", "\"", "a", "r", "g", "u",
    "m", "e", "n", "t", "s", "\"", ":", "{", "\"", "t", "i", "m", "e", "\"", ":", "\"", "N",
    "i", "g", "h", "t", "\"", "}", "}", "}", "]", "}">>

\* "{\"tool_calls\":[{\"function\":{\"name\":\"set_time\",\"arguments\":{\"time\":\"Dusk\"}}}]}"
C_tool_set_time_dusk ==
    <<"{", "\"", "t", "o", "o", "l", "_", "c", "a", "l", "l", "s", "\"", ":", "[", "{", "\"",
    "f", "u", "n", "c", "t", "i", "o", "n", "\"", ":", "{", "\"", "n", "a", "m", "e", "\"",
    ":", "\"", "s", "e", "t", "_", "t", "i", "m", "e", "\"", ",", "\"", "a", "r", "g", "u",
    "m", "e", "n", "t", "s", "\"", ":", "{", "\"", "t", "i", "m", "e", "\"", ":", "\"", "D",
    "u", "s", "k", "\"", "}", "}", "}", "]", "}">>

\* "{\"tool_calls\":[{\"function\":{\"name\":\"set_outfit\",\"arguments\":{\"outfit\":\"reasoning: robe\"}}}]}"
C_tool_with_marker ==
    <<"{", "\"", "t", "o", "o", "l", "_", "c", "a", "l", "l", "s", "\"", ":", "[", "{", "\"",
    "f", "u", "n", "c", "t", "i", "o", "n", "\"", ":", "{", "\"", "n", "a", "m", "e", "\"",
    ":", "\"", "s", "e", "t", "_", "o", "u", "t", "f", "i", "t", "\"", ",", "\"", "a", "r",
    "g", "u", "m", "e", "n", "t", "s", "\"", ":", "{", "\"", "o", "u", "t", "f", "i", "t",
    "\"", ":", "\"", "r", "e", "a", "s", "o", "n", "i", "n", "g", ":", " ", "r", "o", "b", "e",
    "\"", "}", "}", "}", "]", "}">>

\* "{\"tool_calls\":[{\"function\":{\"name\":\"set_location\",\"arguments\":{\"location\":\"Cave\"}}},{\"function\":{\"name\":\"set_outfit\",\"arguments\":{\"outfit\":\"Armor\"}}}]}"
C_tool_two ==
    <<"{", "\"", "t", "o", "o", "l", "_", "c", "a", "l", "l", "s", "\"", ":", "[", "{", "\"",
    "f", "u", "n", "c", "t", "i", "o", "n", "\"", ":", "{", "\"", "n", "a", "m", "e", "\"",
    ":", "\"", "s", "e", "t", "_", "l", "o", "c", "a", "t", "i", "o", "n", "\"", ",", "\"",
    "a", "r", "g", "u", "m", "e", "n", "t", "s", "\"", ":", "{", "\"", "l", "o", "c", "a", "t",
    "i", "o", "n", "\"", ":", "\"", "C", "a", "v", "e", "\"", "}", "}", "}", ",", "{", "\"",
    "f", "u", "n", "c", "t", "i", "o", "n", "\"", ":", "{", "\"", "n", "a", "m", "e", "\"",
    ":", "\"", "s", "e", "t", "_", "o", "u", "t", "f", "i", "t", "\"", ",", "\"", "a", "r",
    "g", "u", "m", "e", "n", "t", "s", "\"", ":", "{", "\"", "o", "u", "t", "f", "i", "t",
    "\"", ":", "\"", "A", "r", "m", "o", "r", "\"", "}", "}", "}", "]", "}">>

\* "{\"tool_calls\":[{\"function\":{\"name\":\"set_outfit\",\"arguments\":{}}}]}"
C_tool_outfit_missing ==
    <<"{", "\"", "t", "o", "o", "l", "_", "c", "a", "l", "l", "s", "\"", ":", "[", "{", "\"",
    "f", "u", "n", "c", "t", "i", "o", "n", "\"", ":", "{", "\"", "n", "a", "m", "e", "\"",
    ":", "\"", "s", "e", "t", "_", "o", "u", "t", "f", "i", "t", "\"", ",", "\"", "a", "r",
    "g", "u", "m", "e", "n", "t", "s", "\"", ":", "{", "}", "}", "}", "]", "}">>

\* "{\"tool_calls\":[{\"function\":{\"name\":\"set_time\",\"arguments\":{\"time\":5}}}]}"
C_tool_time_not_string ==
    <<"{", "\"", "t", "o", "o", "l", "_", "c", "a", "l", "l", "s", "\"", ":", "[", "{", "\"",
    "f", "u", "n", "c", "t", "i", "o", "n", "\"", ":", "{", "\"", "n", "a", "m", "e", "\"",
    ":", "\"", "s", "e", "t", "_", "t", "i", "m", "e", "\"", ",", "\"", "a", "r", "g", "u",
    "m", "e", "n", "t", "s", "\"", ":", "{", "\"", "t", "i", "m", "e", "\"", ":", "5", "}",
    "}", "}", "]", "}">>

\* "{\"tool_calls\":[{\"function\":{\"name\":\"set_location\",\"arguments\":{\"place\":\"Cave\"}}}]}"
C_tool_location_wrong_key ==
    <<"{", "\"", "t", "o", "o", "l", "_", "c", "a", "l", "l", "s", "\"", ":", "[", "{", "\"",
    "f", "u", "n", "c", "t", "i", "o", "n", "\"", ":", "{", "\"", "n", "a", "m", "e", "\"",
    ":", "\"", "s", "e", "t", "_", "l", "o", "c", "a", "t", "i", "o", "n", "\"", ",", "\"",
    "a", "r", "g", "u", "m", "e", "n", "t", "s", "\"", ":", "{", "\"", "p", "l", "a", "c", "e",
    "\"", ":", "\"", "C", "a", "v", "e", "\"", "}", "}", "}", "]", "}">>

\* "{\"tool_calls\":[{\"function\":{\"name\":\"open_door\",\"arguments\":{\"time\":\"Night\"}}}]}"
C_tool_unknown ==
    <<"{", "\"", "t", "o", "o", "l", "_", "c", "a", "l", "l", "s", "\"", ":", "[", "{", "\"",
    "f", "u", "n", "c", "t", "i", "o", "n", "\"", ":", "{", "\"", "n", "a", "m", "e", "\"",
    ":", "\"", "o", "p", "e", "n", "_", "d", "o", "o", "r", "\"", ",", "\"", "a", "r", "g",
    "u", "m", "e", "n", "t", "s", "\"", ":", "{", "\"", "t", "i", "m", "e", "\"", ":", "\"",
    "N", "i", "g", "h", "t", "\"", "}", "}", "}", "]", "}">>

\* "{\"tool_calls\":[{\"function\":{\"arguments\":{}}},{\"function\":{\"name\":\"set_time\",\"arguments\":{\"time\":\"Night\"}}}]}"
C_tool_first_unnamed ==
    <<"{", "\"", "t", "o", "o", "l", "_", "c", "a", "l", "l", "s", "\"", ":", "[", "{", "\"",
    "f", "u", "n", "c", "t", "i", "o", "n", "\"", ":", "{", "\"", "a", "r", "g", "u", "m", "e",
    "n", "t", "s", "\"", ":", "{", "}", "}", "}", ",", "{", "\"", "f", "u", "n", "c", "t", "i",
    "o", "n", "\"", ":", "{", "\"", "n", "a", "m", "e", "\"", ":", "\"", "s", "e", "t", "_",
    "t", "i", "m", "e", "\"", ",", "\"", "a", "r", "g", "u", "m", "e", "n", "t", "s", "\"",
    ":", "{", "\"", "t", "i", "m", "e", "\"", ":", "\"", "N", "i", "g", "h", "t", "\"", "}",
    "}", "}", "]", "}">>

\* "{\"tool_calls\":[{\"function\":{\"name\":5,\"arguments\":{}}}]}"
C_tool_name_not_string ==
    <<"{", "\"", "t", "o", "o", "l", "_", "c", "a", "l", "l", "s", "\"", ":", "[", "{", "\"",
    "f", "u", "n", "c", "t", "i", "o", "n", "\"", ":", "{", "\"", "n", "a", "m", "e", "\"",
    ":", "5", ",", "\"", "a", "r", "g", "u", "m", "e", "n", "t", "s", "\"", ":", "{", "}", "}",
    "}", "]", "}">>

\* "{\"tool_calls\":[{\"function\":{\"name\":\"set_time\"}}]}"
C_tool_no_arguments ==
    <<"{", "\"", "t", "o", "o", "l", "_", "c", "a", "l", "l", "s", "\"", ":", "[", "{", "\"",
    "f", "u", "n", "c", "t", "i", "o", "n", "\"", ":", "{", "\"", "n", "a", "m", "e", "\"",
    ":", "\"", "s", "e", "t", "_", "t", "i", "m", "e", "\"", "}", "}", "]", "}">>

\* "{\"tool_calls\":[]}"
C_tool_empty_array ==
    <<"{", "\"", "t", "o", "o", "l", "_", "c", "a", "l", "l", "s", "\"", ":", "[", "]", "}">>

\* "{\"tool_calls\":\"set_time\"}"
C_tool_not_array ==
    <<"{", "\"", "t", "o", "o", "l", "_", "c", "a", "l", "l", "s", "\"", ":", "\"", "s", "e",
    "t", "_", "t", "i", "m", "e", "\"", "}">>

\* "{\"a\":[true,null]}"
C_json_other ==
    <<"{", "\"", "a", "\"", ":", "[", "t", "r", "u", "e", ",", "n", "u", "l", "l", "]", "}">>

\* "{\"tool_calls\":[{\"function\""
C_json_broken ==
    <<"{", "\"", "t", "o", "o", "l", "_", "c", "a", "l", "l", "s", "\"", ":", "[", "{", "\"",
    "f", "u", "n", "c", "t", "i", "o", "n", "\"">>

---------------------------------------------------------------------------
(* serde_json::Value and serde_json::from_str, on the JSON subset the      *)
(* samples use: objects, arrays, strings with the escapes \" \\ \n,        *)
(* unsigned integers, true, false, null, whitespace between tokens.        *)

JNull == [t |-> "null", v |-> <<>>]
JBool(b) == [t |-> "bool", v |-> <<b>>]
JNum(d) == [t |-> "num", v |-> d]
JStr(s) == [t |-> "str", v |-> s]
JArr(a) == [t |-> "arr", v |-> a]
\* an object is the sequence of its members [k, v], in the order written
JObj(m) == [t |-> "obj", v |-> m]

\* Option<T>
None == [some |-> FALSE, v |-> JNull]
Some(x) == [some |-> TRUE, v |-> x]

Whitespace == {" ", "\n", "\t", "\r"}
Digit == {"0", "1", "2", "3", "4", "5", "6", "7", "8", "9"}

PFail(i) == [ok |-> FALSE, val |-> JNull, next |-> i]
POk(x, i) == [ok |-> TRUE, val |-> x, next |-> i]

RECURSIVE SkipWs(_, _)
SkipWs(s, i) ==
    IF i <= Len(s) /\ s[i] \in Whitespace THEN SkipWs(s, i + 1) ELSE i

HasAt(s, i, lit) ==
    /\ i + Len(lit) - 1 <= Len(s)
    /\ SubSeq(s, i, i + Len(lit) - 1) = lit

\* the characters of a string literal whose opening quote is before s[i]
RECURSIVE ScanString(_, _, _)
ScanString(s, i, acc) ==
    IF i > Len(s) THEN PFail(i)
    ELSE IF s[i] = "\"" THEN POk(JStr(acc), i + 1)
    ELSE IF s[i] = "\\" THEN
        IF i + 1 > Len(s) THEN PFail(i)
        ELSE IF s[i + 1] = "\"" THEN ScanString(s, i + 2, Append(acc, "\""))
        ELSE IF s[i + 1] = "\\" THEN ScanString(s, i + 2, Append(acc, "\\"))
        ELSE IF s[i + 1] = "n" THEN ScanString(s, i + 2, Append(acc, "\n"))
        ELSE PFail(i)
    ELSE IF s[i] = "\n" THEN PFail(i)
    ELSE ScanString(s, i + 1, Append(acc, s[i]))

RECURSIVE ScanDigits(_, _)
ScanDigits(s, i) ==
    IF i <= Len(s) /\ s[i] \in Digit THEN ScanDigits(s, i + 1) ELSE i

RECURSIVE ParseValue(_, _)
RECURSIVE ParseElems(_, _, _)
RECURSIVE ParseMembers(_, _, _)

\* an array, its "[" read: j is the first character after whitespace
ArrayAt(s, j) ==
    IF j <= Len(s) /\ s[j] = "]" THEN POk(JArr(<<>>), j + 1)
    ELSE ParseElems(s, j, <<>>)

\* an object, its "{" read: j is the first character after whitespace
ObjectAt(s, j) ==
    IF j <= Len(s) /\ s[j] = "}" THEN POk(JObj(<<>>), j + 1)
    ELSE ParseMembers(s, j, <<>>)

\* a number from s[j], a digit, to before s[k]; JSON allows no leading zero
NumberAt(s, j, k) ==
    IF s[j] = "0" /\ k > j + 1 THEN PFail(j)
    ELSE POk(JNum(SubSeq(s, j, k - 1)), k)

\* the value that starts at s[j], whitespace skipped
ValueAt(s, j) ==
    IF j > Len(s) THEN PFail(j)
    ELSE IF s[j] = "\"" THEN ScanString(s, j + 1, <<>>)
    ELSE IF s[j] = "[" THEN ArrayAt(s, SkipWs(s, j + 1))
    ELSE IF s[j] = "{" THEN ObjectAt(s, SkipWs(s, j + 1))
    ELSE IF s[j] \in Digit THEN NumberAt(s, j, ScanDigits(s, j))
    ELSE IF HasAt(s, j, <<"t", "r", "u", "e">>) THEN POk(JBool(TRUE), j + 4)
    ELSE IF HasAt(s, j, <<"f", "a", "l", "s", "e">>) THEN POk(JBool(FALSE), j + 5)
    ELSE IF HasAt(s, j, <<"n", "u", "l", "l">>) THEN POk(JNull, j + 4)
    ELSE PFail(j)

ParseValue(s, i) == ValueAt(s, SkipWs(s, i))

\* the elements acc and the element e are read; k is the first character
\* after whitespace
AfterElem(s, acc, e, k) ==
    IF k > Len(s) THEN PFail(k)
    ELSE IF s[k] = "," THEN ParseElems(s, k + 1, Append(acc, e.val))
    ELSE IF s[k] = "]" THEN POk(JArr(Append(acc, e.val)), k + 1)
    ELSE PFail(k)

ElemRead(s, acc, e) ==
    IF ~e.ok THEN e ELSE AfterElem(s, acc, e, SkipWs(s, e.next))

ParseElems(s, i, acc) == ElemRead(s, acc, ParseValue(s, i))

\* the members m are read; k is the first character after whitespace
AfterMember(s, m, k) ==
    IF k > Len(s) THEN PFail(k)
    ELSE IF s[k] = "," THEN ParseMembers(s, k + 1, m)
    ELSE IF s[k] = "}" THEN POk(JObj(m), k + 1)
    ELSE PFail(k)

MemberRead(s, acc, key, e) ==
    IF ~e.ok THEN e
    ELSE AfterMember(s, Append(acc, [k |-> key.val.v, v |-> e.val]),
                     SkipWs(s, e.next))

\* the key is read; c is the first character after whitespace
AfterKey(s, acc, key, c) ==
    IF c > Len(s) \/ s[c] # ":" THEN PFail(c)
    ELSE MemberRead(s, acc, key, ParseValue(s, c + 1))

KeyRead(s, acc, key) ==
    IF ~key.ok THEN key ELSE AfterKey(s, acc, key, SkipWs(s, key.next))

MemberAt(s, j, acc) ==
    IF j > Len(s) \/ s[j] # "\"" THEN PFail(j)
    ELSE KeyRead(s, acc, ScanString(s, j + 1, <<>>))

ParseMembers(s, i, acc) == MemberAt(s, SkipWs(s, i), acc)

\* one value, then only whitespace
WholeValue(s, r) ==
    IF r.ok /\ SkipWs(s, r.next) = Len(s) + 1 THEN Some(r.val) ELSE None

\* serde_json::from_str::<Value>: one value, then only whitespace
from_str(s) == WholeValue(s, ParseValue(s, 1))

\* Value::get(key): a member of an object (the last one of that key), None
\* for any other value
Get(val, key) ==
    IF val.t # "obj" THEN None
    ELSE LET hits == {i \in 1..Len(val.v) : val.v[i].k = key} IN
         IF hits = {} THEN None
         ELSE Some(val.v[CHOOSE i \in hits : \A j \in hits : j <= i].v)

\* Option::and_then(|x| x.get(key))
AndThenGet(opt, key) == IF opt.some THEN Get(opt.v, key) ELSE None

\* Option::and_then(|x| x.as_str())
AndThenAsStr(opt) ==
    IF opt.some /\ opt.v.t = "str" THEN Some(opt.v) ELSE None

---------------------------------------------------------------------------
(* The wire.  A response body is a sequence of units.  An NDJSON line is   *)
(* three of them: the text of the envelope up to its done field ("D0" for  *)
(* done:false, "D1" for done:true), the text of its message field (a unit  *)
(* of MessageUnits, "}" when the envelope has none), and the line          *)
(* terminator "\n".  Any other run of units up to a "\n" is a line that    *)
(* does not deserialize.                                                   *)

\* ChatMessage
ChatMessage(role, content) == [role |-> role, content |-> content]

\* the message field each message unit carries
MessageOf ==
    "}" :> None @@
    "M_empty" :> Some(ChatMessage("assistant", <<>>)) @@
    "M_narrative" :> Some(ChatMessage("assistant", C_narrative)) @@
    "M_choices12" :> Some(ChatMessage("assistant", C_choices12)) @@
    "M_choice3" :> Some(ChatMessage("assistant", C_choice3)) @@
    "M_think" :> Some(ChatMessage("assistant", C_think)) @@
    "M_reasoning" :> Some(ChatMessage("assistant", C_reasoning)) @@
    "M_number" :> Some(ChatMessage("assistant", C_number)) @@
    "M_tool_set_time" :> Some(ChatMessage("assistant", C_tool_set_time)) @@
    "M_tool_set_time_dusk" :> Some(ChatMessage("assistant", C_tool_set_time_dusk)) @@
    "M_tool_with_marker" :> Some(ChatMessage("assistant", C_tool_with_marker)) @@
    "M_tool_two" :> Some(ChatMessage("assistant", C_tool_two)) @@
    "M_tool_outfit_missing" :> Some(ChatMessage("assistant", C_tool_outfit_missing)) @@
    "M_tool_time_not_string" :> Some(ChatMessage("assistant", C_tool_time_not_string)) @@
    "M_tool_location_wrong_key" :> Some(ChatMessage("assistant", C_tool_location_wrong_key)) @@
    "M_tool_unknown" :> Some(ChatMessage("assistant", C_tool_unknown)) @@
    "M_tool_first_unnamed" :> Some(ChatMessage("assistant", C_tool_first_unnamed)) @@
    "M_tool_name_not_string" :> Some(ChatMessage("assistant", C_tool_name_not_string)) @@
    "M_tool_no_arguments" :> Some(ChatMessage("assistant", C_tool_no_arguments)) @@
    "M_tool_empty_array" :> Some(ChatMessage("assistant", C_tool_empty_array)) @@
    "M_tool_not_array" :> Some(ChatMessage("assistant", C_tool_not_array)) @@
    "M_json_other" :> Some(ChatMessage("assistant", C_json_other)) @@
    "M_json_broken" :> Some(ChatMessage("assistant", C_json_broken))

MessageUnits == DOMAIN MessageOf

\* OllamaStreamChunk: the fields parse_stream reads
OllamaStreamChunk(done, message) == [done |-> done, message |-> message]

\* Result<T, E>
Ok(x) == [ok |-> TRUE, v |-> x, err |-> <<>>]
Err(e) == [ok |-> FALSE, v |-> JNull, err |-> e]

\* serde_json::from_str::<OllamaStreamChunk> on the text of one line
from_str_OllamaStreamChunk(line) ==
    IF /\ Len(line) = 3
       /\ line[1] \in {"D0", "D1"}
       /\ line[2] \in MessageUnits
       /\ line[3] = "\n"
    THEN [ok |-> TRUE,
          v |-> OllamaStreamChunk(line[1] = "D1", MessageOf[line[2]]),
          err |-> <<>>]
    ELSE [ok |-> FALSE,
          v |-> OllamaStreamChunk(FALSE, None),
          err |-> <<"serde_json error">>]

---------------------------------------------------------------------------
(* StreamChunk and the classification of one decoded line. *)

TextChunk(content) ==
    [type |-> "TextChunk", content |-> content, name |-> <<>>, arguments |-> JNull]
ReasoningChunk(content) ==
    [type |-> "ReasoningChunk", content |-> content, name |-> <<>>, arguments |-> JNull]
ToolCall(name, arguments) ==
    [type |-> "ToolCall", content |-> <<>>, name |-> name, arguments |-> arguments]
Done ==
    [type |-> "Done", content |-> <<>>, name |-> <<>>, arguments |-> JNull]

\* an item of the stream parse_stream returns: Result<StreamChunk, Box<dyn Error>>
OkItem(chunk) == [ok |-> TRUE, chunk |-> chunk, err |-> <<>>]
NoChunk ==
    [type |-> "none", content |-> <<>>, name |-> <<>>, arguments |-> JNull]
ErrItem(msg) == [ok |-> FALSE, chunk |-> NoChunk, err |-> msg]

\* the item parse_stream yields when the transport fails
TransportErrorItem == ErrItem(<<"Stream error: ", "transport error">>)

\* what one turn of the unfold closure's loop hands back: an item, or nothing
NoItem == [some |-> FALSE, item |-> ErrItem(<<>>)]
Yield(item) == [some |-> TRUE, item |-> item]

\* str::starts_with
starts_with(s, prefix) ==
    Len(prefix) <= Len(s) /\ SubSeq(s, 1, Len(prefix)) = prefix

\* str::contains
contains(s, pat) ==
    \E i \in 1..(Len(s) - Len(pat) + 1) : SubSeq(s, i, i + Len(pat) - 1) = pat

\* (mutant of first) the last element is taken
first_TakesLast(a) == IF Len(a) = 0 THEN None ELSE Some(a[Len(a)])

\* the first element of a Vec
first(a) == IF Len(a) = 0 THEN None ELSE Some(a[1])

\* the tool call the content of a message holds, if any
tool_call_of(content) ==
    LET content_json == from_str(content) IN
    IF ~content_json.some THEN None
    ELSE LET tool_calls == Get(content_json.v, K_tool_calls) IN
         IF ~tool_calls.some \/ tool_calls.v.t # "arr" THEN None
         ELSE LET first_call == first(tool_calls.v.v) IN
              IF ~first_call.some THEN None
              ELSE LET function == Get(first_call.v, K_function)
                       name == AndThenAsStr(AndThenGet(function, K_name))
                       args == AndThenGet(function, K_arguments)
                   IN  IF name.some /\ args.some
                       THEN Some(ToolCall(name.v.v, args.v))
                       ELSE None

\* is this content reasoning
is_reasoning(content) ==
    starts_with(content, S_think) \/ contains(content, S_reasoning)

\* (mutant of classify) the reasoning markers are looked for before the tool
\* call
classify_MarkerFirst(chunk) ==
    IF chunk.done THEN Yield(OkItem(Done))
    ELSE IF ~chunk.message.some THEN NoItem
    ELSE LET content == chunk.message.v.content
             call == tool_call_of(content)
         IN  IF content # <<>> /\ is_reasoning(content)
             THEN Yield(OkItem(ReasoningChunk(content)))
             ELSE IF call.some THEN Yield(OkItem(call.v))
             ELSE IF content # <<>> THEN Yield(OkItem(TextChunk(content)))
             ELSE NoItem

\* a deserialized chunk to the item it makes parse_stream yield, if any
classify(chunk) ==
    IF chunk.done THEN Yield(OkItem(Done))
    ELSE IF ~chunk.message.some THEN NoItem
    ELSE LET content == chunk.message.v.content
             call == tool_call_of(content)
         IN  IF call.some THEN Yield(OkItem(call.v))
             ELSE IF content # <<>> THEN
                 IF is_reasoning(content)
                 THEN Yield(OkItem(ReasoningChunk(content)))
                 ELSE Yield(OkItem(TextChunk(content)))
             ELSE NoItem

\* the chunks the lines of the sample bodies deserialize to
SampleChunks ==
    {OllamaStreamChunk(done, MessageOf[m]) : done \in BOOLEAN, m \in MessageUnits}

\* classify on each of these chunks, computed once
classified == [chunk \in SampleChunks |-> classify(chunk)]

\* one complete line, terminator included, to the item it yields, if any
decode_line(line) ==
    LET parsed == from_str_OllamaStreamChunk(line) IN
    IF parsed.ok THEN classified[parsed.v]
    ELSE Yield(ErrItem(<<"Failed to parse JSON: ">> \o parsed.err))

\* Iterator::position(|b| b == b'\n'), 1-based, 0 for None
newline_pos(buf) ==
    IF \E i \in 1..Len(buf) : buf[i] = "\n"
    THEN CHOOSE i \in 1..Len(buf) :
            buf[i] = "\n" /\ \A j \in 1..(i - 1) : buf[j] # "\n"
    ELSE 0

\* (mutant of on_bytes) the line decoded is left in the buffer
on_bytes_KeepsLine(buf, bytes) ==
    LET extended == buf \o bytes
        p == newline_pos(extended)
    IN  IF p = 0 THEN [buffer |-> extended, out |-> NoItem]
        ELSE [buffer |-> extended,
              out |-> decode_line(SubSeq(extended, 1, p))]

\* Some(Ok(bytes)): the chunk is appended, and one line is taken off the
\* buffer and decoded if the buffer holds a whole line
on_bytes(buf, bytes) ==
    LET extended == buf \o bytes
        p == newline_pos(extended)
    IN  IF p = 0 THEN [buffer |-> extended, out |-> NoItem]
        ELSE [buffer |-> SubSeq(extended, p + 1, Len(extended)),
              out |-> decode_line(SubSeq(extended, 1, p))]

---------------------------------------------------------------------------
(* Response bodies. *)

\* the lines a body is made of: every sample envelope, and lines that do
\* not deserialize (a truncated envelope, an empty line)
WireLines ==
    {<<"D0", m, "\n">> : m \in MessageUnits}
    \cup {<<"D1", "}", "\n">>, <<"D1", "M_narrative", "\n">>}
    \cup {<<"D0", "\n">>, <<"\n">>}

RECURSIVE BodiesOf(_, _)
BodiesOf(lines, n) ==
    IF n = 0 THEN {<<>>}
    ELSE LET shorter == BodiesOf(lines, n - 1) IN
         shorter \cup {b \o l : b \in shorter, l \in lines}

\* the bodies of at most MaxLines lines
Bodies == BodiesOf(WireLines, MaxLines)

---------------------------------------------------------------------------
(* State after construction. *)

\* GameState
GameState(time, location, outfit) ==
    [time |-> time, location |-> location, outfit |-> outfit]

\* the GameState of a new game
InitialGameState == GameState(S_Morning, S_MysteriousRoom, S_TravelersCloak)

\* no HTTP exchange is open
NoTransport ==
    /\ body = <<>>
    /\ pos = 0
    /\ transport = "none"
    /\ buffer = <<>>
    /\ yielded = <<>>

\* Agent::new(), and the GameState main() puts in AppState
NewAgent ==
    /\ conversation_history = <<>>
    /\ current_state = InitialGameState
    /\ pc = "idle"
    /\ accumulated_text = <<>>
    /\ accumulated_reasoning = <<>>
    /\ emitted = <<>>
    /\ turn_number = 0

\* extract_choices has not been called
NoChoices ==
    /\ text = <<>>
    /\ choices = <<>>

\* the invocations of submit_action_stream: each is called once, at any
\* time, and they may be in flight together
Tasks == {1, 2}

\* a submit_action_stream that has not been called: its locals (action,
\* turn_number, agent, current_state, result), and the record of its run
\* (the clones as they were taken, whether another invocation was in flight
\* along with it, whether start_new_game ran while it was in flight)
IdleTask ==
    [pc |-> "idle", action |-> <<>>, turn_number |-> 0, agent |-> <<>>,
     current_state |-> InitialGameState, result |-> "none",
     from_agent |-> <<>>, from_state |-> InitialGameState,
     overlapped |-> FALSE, restarted |-> FALSE]

\* the invocation once it has returned this result: the action and the turn
\* number are dropped, the rest is kept as the record of its run
Returned(invocation, result) ==
    [invocation EXCEPT !.pc = "done", !.result = result, !.action = <<>>,
                       !.turn_number = 0]

\* the invocation is between its call and its return
InFlight(invocation) == invocation.pc \notin {"idle", "done"}

\* the fields of AppState, each behind its own Mutex
Mutexes == {"ollama_config", "game_history", "agent", "current_game_state"}

\* the threads that run the commands
Threads == {1, 2, 3}

\* no command is running and every Mutex is free (0: no thread)
NoLocks ==
    /\ mutex = [m \in Mutexes |-> 0]
    /\ thread = [th \in Threads |-> [command |-> "none", at |-> 0]]

\* execute_tool has not been called
NoTool ==
    /\ tool_call = [name |-> <<>>, arguments |-> JNull]
    /\ tool_state = InitialGameState
    /\ tool_result = [returned |-> FALSE, ok |-> FALSE, err |-> <<>>]

\* the AppState main() builds; no command in flight
NoApp ==
    /\ game_history = <<>>
    /\ agent = <<>>
    /\ current_game_state = InitialGameState
    /\ task = [t \in Tasks |-> IdleTask]

---------------------------------------------------------------------------
(* parse_stream alone, driven by a consumer that polls it until it ends.   *)
(* Each action is one turn of the loop of the unfold closure: what         *)
(* stream.next().await answers, and what the closure does with it.         *)

\* parse_stream(stream): the unfold state is (stream, Vec::new())
DecodeInit ==
    /\ body \in Bodies
    /\ pos = 0
    /\ transport = "open"
    /\ buffer = <<>>
    /\ yielded = <<>>
    /\ NewAgent
    /\ NoChoices
    /\ NoApp
    /\ NoTool
    /\ NoLocks

\* Some(Ok(bytes)): the transport hands over the next n units of the body
DecodeBytes(n) ==
    /\ transport = "open"
    /\ pos + n <= Len(body)
    /\ LET r == on_bytes(buffer, SubSeq(body, pos + 1, pos + n)) IN
       /\ buffer' = r.buffer
       /\ yielded' = IF r.out.some THEN Append(yielded, r.out.item) ELSE yielded
    /\ pos' = pos + n
    /\ UNCHANGED <<body, transport>>
    /\ UNCHANGED <<agentVars, choiceVars, appVars, toolVars, lockVars>>

\* Some(Err(e)): the transport fails; the closure yields the error
DecodeTransportError ==
    /\ transport = "open"
    /\ yielded' = Append(yielded, TransportErrorItem)
    /\ transport' = "failed"
    /\ UNCHANGED <<body, pos, buffer>>
    /\ UNCHANGED <<agentVars, choiceVars, appVars, toolVars, lockVars>>

\* None: the transport is closed, after the whole body or before (dropped);
\* the closure returns None and the sequence ends
DecodeClose ==
    /\ transport \in {"open", "failed"}
    /\ transport' = "closed"
    /\ UNCHANGED <<body, pos, buffer, yielded>>
    /\ UNCHANGED <<agentVars, choiceVars, appVars, toolVars, lockVars>>

DecodeNext ==
    \/ \E n \in 1..(MaxLines * 3) : DecodeBytes(n)
    \/ DecodeTransportError
    \/ DecodeClose

SpecDecode == DecodeInit /\ [][DecodeNext]_vars

---------------------------------------------------------------------------
(* Agent::extract_choices. *)

\* "Continue exploring"
S_ContinueExploring ==
    <<"C", "o", "n", "t", "i", "n", "u", "e", " ", "e", "x", "p", "l", "o", "r", "i", "n", "g">>

\* "Examine your surroundings carefully"
S_ExamineSurroundings ==
    <<"E", "x", "a", "m", "i", "n", "e", " ", "y", "o", "u", "r", " ", "s", "u", "r", "r", "o",
    "u", "n", "d", "i", "n", "g", "s", " ", "c", "a", "r", "e", "f", "u", "l", "l", "y">>

\* "Take a different approach"
S_DifferentApproach ==
    <<"T", "a", "k", "e", " ", "a", " ", "d", "i", "f", "f", "e", "r", "e", "n", "t", " ", "a",
    "p", "p", "r", "o", "a", "c", "h">>

\* "1. A"
L_one_A ==
    <<"1", ".", " ", "A">>

\* "2) B"
L_two_B ==
    <<"2", ")", " ", "B">>

\* "3: C"
L_three_C ==
    <<"3", ":", " ", "C">>

\* "  3. D "
L_three_D_padded ==
    <<" ", " ", "3", ".", " ", "D", " ">>

\* "1.5 m"
L_one_decimal ==
    <<"1", ".", "5", " ", "m">>

\* "10. x"
L_ten ==
    <<"1", "0", ".", " ", "x">>

\* "2."
L_two_bare ==
    <<"2", ".">>

\* "Go"
L_narrative ==
    <<"G", "o">>


\* char::is_whitespace, on the characters the samples use
is_whitespace(c) == c \in {" ", "\t", "\n", "\r"}

\* str::trim_start
RECURSIVE trim_start(_)
trim_start(s) ==
    IF s # <<>> /\ is_whitespace(Head(s)) THEN trim_start(Tail(s)) ELSE s

\* str::trim_end
RECURSIVE trim_end(_)
trim_end(s) ==
    IF s # <<>> /\ is_whitespace(s[Len(s)])
    THEN trim_end(SubSeq(s, 1, Len(s) - 1))
    ELSE s

\* str::trim
trim(s) == trim_end(trim_start(s))

\* str::lines: the text between line feeds, a carriage return before a line
\* feed dropped, no empty last line after a final line feed
RECURSIVE lines(_)
lines(s) ==
    IF s = <<>> THEN <<>>
    ELSE LET p == newline_pos(s) IN
         IF p = 0 THEN <<s>>
         ELSE LET l == SubSeq(s, 1, p - 1) IN
              <<IF l # <<>> /\ l[Len(l)] = "\r" THEN SubSeq(l, 1, Len(l) - 1) ELSE l>>
              \o lines(SubSeq(s, p + 1, Len(s)))

\* str::strip_prefix
strip_prefix(s, prefix) ==
    IF starts_with(s, prefix)
    THEN Some(SubSeq(s, Len(prefix) + 1, Len(s)))
    ELSE None

\* Option::or_else
or_else(a, b) == IF a.some THEN a ELSE b

\* (mutant of strip_number) only the form "N." is matched
strip_number_DotOnly(trimmed, digit) == strip_prefix(trimmed, <<digit, ".">>)

\* trimmed.strip_prefix("N.") or "N)" or "N:"
strip_number(trimmed, digit) ==
    or_else(strip_prefix(trimmed, <<digit, ".">>),
            or_else(strip_prefix(trimmed, <<digit, ")">>),
                    strip_prefix(trimmed, <<digit, ":">>)))

\* the body of the loop over the lines: the choice a line adds, if any
choice_of(line) ==
    LET trimmed == trim(line)
        one == strip_number(trimmed, "1")
        two == strip_number(trimmed, "2")
        three == strip_number(trimmed, "3")
    IN  IF one.some THEN Some(trim(one.v))
        ELSE IF two.some THEN Some(trim(two.v))
        ELSE IF three.some THEN Some(trim(three.v))
        ELSE None

\* the loop over the lines: the choices pushed, in the order pushed
RECURSIVE numbered_choices(_)
numbered_choices(ls) ==
    IF ls = <<>> THEN <<>>
    ELSE LET c == choice_of(Head(ls)) IN
         (IF c.some THEN <<c.v>> ELSE <<>>) \o numbered_choices(Tail(ls))

\* the defaults
default_choices ==
    <<S_ContinueExploring, S_ExamineSurroundings, S_DifferentApproach>>

\* Vec::truncate
truncate(v, n) == IF Len(v) > n THEN SubSeq(v, 1, n) ELSE v

\* (mutant of extract_choices) the defaults replace the choices found only
\* when none was found
extract_choices_KeepsPartial(t) ==
    LET found == numbered_choices(lines(t))
        kept == IF Len(found) < 1 THEN default_choices ELSE found
    IN  truncate(kept, 3)

\* Agent::extract_choices
extract_choices(t) ==
    LET found == numbered_choices(lines(t))
        kept == IF Len(found) < 3 THEN default_choices ELSE found
    IN  truncate(kept, 3)

---------------------------------------------------------------------------
(* extract_choices alone, on texts of at most MaxTextLines lines. *)

\* the lines the texts are made of
TextLines ==
    {L_one_A, L_two_B, L_three_C, L_three_D_padded, L_one_decimal, L_ten,
     L_two_bare, L_narrative, <<>>}

RECURSIVE LineSeqs(_)
LineSeqs(n) ==
    IF n = 0 THEN {<<>>}
    ELSE LET shorter == LineSeqs(n - 1) IN
         shorter \cup {Append(ls, l) : ls \in shorter, l \in TextLines}

\* the lines, a line feed between one and the next
RECURSIVE Join(_)
Join(ls) ==
    IF ls = <<>> THEN <<>>
    ELSE IF Len(ls) = 1 THEN ls[1]
    ELSE ls[1] \o <<"\n">> \o Join(Tail(ls))

Texts == {Join(ls) : ls \in LineSeqs(MaxTextLines)}

ChoicesInit ==
    /\ text \in Texts
    /\ choices = <<>>
    /\ NoTransport
    /\ NewAgent
    /\ NoApp
    /\ NoTool
    /\ NoLocks

\* the call extract_choices(&text)
ExtractChoices ==
    /\ choices = <<>>
    /\ choices' = extract_choices(text)
    /\ UNCHANGED text
    /\ UNCHANGED <<transportVars, agentVars, appVars, toolVars, lockVars>>

ChoicesNext == ExtractChoices

SpecChoices == ChoicesInit /\ [][ChoicesNext]_vars

---------------------------------------------------------------------------
(* Agent. *)

\* "look"
S_look ==
    <<"l", "o", "o", "k">>

\* "wait"
S_wait ==
    <<"w", "a", "i", "t">>


\* AgentMessage
AgentMessage_TextChunk(content) == [type |-> "TextChunk", content |-> content]
AgentMessage_ReasoningChunk(content) ==
    [type |-> "ReasoningChunk", content |-> content]
AgentMessage_ToolCall(name, args) ==
    [type |-> "ToolCall", name |-> name, args |-> args]
AgentMessage_ToolResult(name, result) ==
    [type |-> "ToolResult", name |-> name, result |-> result]
AgentMessage_TurnComplete(n, story_text, cs, game_state) ==
    [type |-> "TurnComplete", turn_number |-> n, story_text |-> story_text,
     choices |-> cs, game_state |-> game_state]
AgentMessage_Error(message) == [type |-> "Error", message |-> message]

\* Agent::create_system_prompt: the prompt, line by line
create_system_prompt ==
    <<"You are a creative and immersive dungeon master for a text-based adventure game.\n",
      "\n",
      "Your role is to:\n",
      "1. Generate vivid, engaging narrative text that brings the story to life\n",
      "2. Always provide exactly 3 distinct choices for the player at the end of your response\n",
      "3. Use the available tools to naturally update game state (time, location, outfit) as the story progresses\n",
      "4. Maintain consistency with the current game state and previous events\n",
      "5. Be creative but responsive to player actions\n",
      "\n",
      "Available tools:\n",
      "- set_time: Update time of day (Morning, Afternoon, Evening, Night)\n",
      "- set_location: Change the player's location\n",
      "- set_outfit: Update the player's outfit or equipment\n",
      "\n",
      "Format your responses as narrative text followed by three choices prefixed with numbers:\n",
      "1. [First choice]\n",
      "2. [Second choice]  \n",
      "3. [Third choice]\n",
      "\n",
      "Use tools when appropriate (e.g., call set_time when time passes, set_location when moving to a new place).\n",
      "\n",
      "Remember: You are telling an interactive story. Make it memorable!">>

\* Agent::format_user_message
format_user_message(action, state) ==
    <<"Current State:\n- Time: ">> \o state.time
    \o <<"\n- Location: ">> \o state.location
    \o <<"\n- Outfit: ">> \o state.outfit
    \o <<"\n\nPlayer Action: ">> \o action
    \o <<"\n\nContinue the story based on this action. ",
          "Remember to provide exactly 3 choices and use tools to update state if appropriate.">>

\* (mutant of string_argument) the value is taken whatever its type
string_argument_AnyType(arguments, key) == Get(arguments, key)

\* arguments.get(key).and_then(|v| v.as_str())
string_argument(arguments, key) == AndThenAsStr(Get(arguments, key))

\* (mutant of execute_tool) set_location writes the time field
execute_tool_WrongField(tool_name, arguments, state) ==
    IF tool_name = S_set_time THEN
        LET time == string_argument(arguments, K_time) IN
        IF time.some
        THEN [ok |-> TRUE, state |-> [state EXCEPT !.time = time.v.v], err |-> <<>>]
        ELSE [ok |-> FALSE, state |-> state, err |-> <<"Missing 'time' argument">>]
    ELSE IF tool_name = S_set_location THEN
        LET location == string_argument(arguments, K_location) IN
        IF location.some
        THEN [ok |-> TRUE, state |-> [state EXCEPT !.time = location.v.v],
              err |-> <<>>]
        ELSE [ok |-> FALSE, state |-> state, err |-> <<"Missing 'location' argument">>]
    ELSE IF tool_name = S_set_outfit THEN
        LET outfit == string_argument(arguments, K_outfit) IN
        IF outfit.some
        THEN [ok |-> TRUE, state |-> [state EXCEPT !.outfit = outfit.v.v], err |-> <<>>]
        ELSE [ok |-> FALSE, state |-> state, err |-> <<"Missing 'outfit' argument">>]
    ELSE [ok |-> FALSE, state |-> state, err |-> <<"Unknown tool: ">> \o tool_name]

\* Agent::execute_tool: Ok with the state as mutated, or Err with the message
execute_tool(tool_name, arguments, state) ==
    IF tool_name = S_set_time THEN
        LET time == string_argument(arguments, K_time) IN
        IF time.some
        THEN [ok |-> TRUE, state |-> [state EXCEPT !.time = time.v.v], err |-> <<>>]
        ELSE [ok |-> FALSE, state |-> state, err |-> <<"Missing 'time' argument">>]
    ELSE IF tool_name = S_set_location THEN
        LET location == string_argument(arguments, K_location) IN
        IF location.some
        THEN [ok |-> TRUE, state |-> [state EXCEPT !.location = location.v.v],
              err |-> <<>>]
        ELSE [ok |-> FALSE, state |-> state, err |-> <<"Missing 'location' argument">>]
    ELSE IF tool_name = S_set_outfit THEN
        LET outfit == string_argument(arguments, K_outfit) IN
        IF outfit.some
        THEN [ok |-> TRUE, state |-> [state EXCEPT !.outfit = outfit.v.v], err |-> <<>>]
        ELSE [ok |-> FALSE, state |-> state, err |-> <<"Missing 'outfit' argument">>]
    ELSE [ok |-> FALSE, state |-> state, err |-> <<"Unknown tool: ">> \o tool_name]

\* the locals of process_action the loop over the stream changes; stop says
\* that the loop was left by break
Locals(t, r, s, e, stop) ==
    [accumulated_text |-> t, accumulated_reasoning |-> r, current_state |-> s,
     emitted |-> e, stop |-> stop]

\* (mutant of on_tool_call) the loop is left when the tool fails
on_tool_call_StopsOnFailure(name, arguments, l) ==
    LET announced == Append(l.emitted, AgentMessage_ToolCall(name, arguments))
        done == execute_tool(name, arguments, l.current_state)
    IN  IF ~done.ok
        THEN Locals(l.accumulated_text, l.accumulated_reasoning, l.current_state,
                    Append(announced,
                           AgentMessage_Error(<<"Tool execution failed: ">> \o done.err)),
                    TRUE)
        ELSE Locals(l.accumulated_text, l.accumulated_reasoning, done.state,
                    Append(announced, AgentMessage_ToolResult(name, done.state)),
                    FALSE)

\* (mutant of on_tool_call) ToolResult carries the state as it was before
\* the tool ran
on_tool_call_StaleResult(name, arguments, l) ==
    LET announced == Append(l.emitted, AgentMessage_ToolCall(name, arguments))
        done == execute_tool(name, arguments, l.current_state)
    IN  IF ~done.ok
        THEN Locals(l.accumulated_text, l.accumulated_reasoning, l.current_state,
                    Append(announced,
                           AgentMessage_Error(<<"Tool execution failed: ">> \o done.err)),
                    FALSE)
        ELSE Locals(l.accumulated_text, l.accumulated_reasoning, done.state,
                    Append(announced, AgentMessage_ToolResult(name, l.current_state)),
                    FALSE)

\* (mutant of on_tool_call) the outcome is emitted before the ToolCall event
on_tool_call_AnnouncesAfter(name, arguments, l) ==
    LET done == execute_tool(name, arguments, l.current_state) IN
    IF ~done.ok
    THEN Locals(l.accumulated_text, l.accumulated_reasoning, l.current_state,
                l.emitted \o
                  <<AgentMessage_Error(<<"Tool execution failed: ">> \o done.err),
                    AgentMessage_ToolCall(name, arguments)>>,
                FALSE)
    ELSE Locals(l.accumulated_text, l.accumulated_reasoning, done.state,
                l.emitted \o
                  <<AgentMessage_ToolResult(name, done.state),
                    AgentMessage_ToolCall(name, arguments)>>,
                FALSE)

\* the arm of the match for a ToolCall
on_tool_call(name, arguments, l) ==
    LET announced == Append(l.emitted, AgentMessage_ToolCall(name, arguments))
        done == execute_tool(name, arguments, l.current_state)
    IN  IF ~done.ok
        THEN Locals(l.accumulated_text, l.accumulated_reasoning, l.current_state,
                    Append(announced,
                           AgentMessage_Error(<<"Tool execution failed: ">> \o done.err)),
                    FALSE)
        ELSE Locals(l.accumulated_text, l.accumulated_reasoning, done.state,
                    Append(announced, AgentMessage_ToolResult(name, done.state)),
                    FALSE)

\* (mutant of on_item) a reasoning fragment is appended to the text as well
on_item_ReasoningInStory(item, l) ==
    IF ~item.ok THEN
        Locals(l.accumulated_text, l.accumulated_reasoning, l.current_state,
               Append(l.emitted, AgentMessage_Error(<<"Stream error: ">> \o item.err)),
               TRUE)
    ELSE IF item.chunk.type = "TextChunk" THEN
        Locals(l.accumulated_text \o item.chunk.content, l.accumulated_reasoning,
               l.current_state,
               Append(l.emitted, AgentMessage_TextChunk(item.chunk.content)),
               FALSE)
    ELSE IF item.chunk.type = "ReasoningChunk" THEN
        Locals(l.accumulated_text \o item.chunk.content,
               l.accumulated_reasoning \o item.chunk.content,
               l.current_state,
               Append(l.emitted, AgentMessage_ReasoningChunk(item.chunk.content)),
               FALSE)
    ELSE IF item.chunk.type = "ToolCall" THEN
        on_tool_call(item.chunk.name, item.chunk.arguments, l)
    ELSE \* Done
        Locals(l.accumulated_text, l.accumulated_reasoning, l.current_state,
               l.emitted, TRUE)

\* (mutant of on_item) the loop goes on after an error item
on_item_ErrorContinues(item, l) ==
    IF ~item.ok THEN
        Locals(l.accumulated_text, l.accumulated_reasoning, l.current_state,
               Append(l.emitted, AgentMessage_Error(<<"Stream error: ">> \o item.err)),
               FALSE)
    ELSE IF item.chunk.type = "TextChunk" THEN
        Locals(l.accumulated_text \o item.chunk.content, l.accumulated_reasoning,
               l.current_state,
               Append(l.emitted, AgentMessage_TextChunk(item.chunk.content)),
               FALSE)
    ELSE IF item.chunk.type = "ReasoningChunk" THEN
        Locals(l.accumulated_text, l.accumulated_reasoning \o item.chunk.content,
               l.current_state,
               Append(l.emitted, AgentMessage_ReasoningChunk(item.chunk.content)),
               FALSE)
    ELSE IF item.chunk.type = "ToolCall" THEN
        on_tool_call(item.chunk.name, item.chunk.arguments, l)
    ELSE \* Done
        Locals(l.accumulated_text, l.accumulated_reasoning, l.current_state,
               l.emitted, TRUE)

\* the body of the while loop for one item of the stream
on_item(item, l) ==
    IF ~item.ok THEN
        Locals(l.accumulated_text, l.accumulated_reasoning, l.current_state,
               Append(l.emitted, AgentMessage_Error(<<"Stream error: ">> \o item.err)),
               TRUE)
    ELSE IF item.chunk.type = "TextChunk" THEN
        Locals(l.accumulated_text \o item.chunk.content, l.accumulated_reasoning,
               l.current_state,
               Append(l.emitted, AgentMessage_TextChunk(item.chunk.content)),
               FALSE)
    ELSE IF item.chunk.type = "ReasoningChunk" THEN
        Locals(l.accumulated_text, l.accumulated_reasoning \o item.chunk.content,
               l.current_state,
               Append(l.emitted, AgentMessage_ReasoningChunk(item.chunk.content)),
               FALSE)
    ELSE IF item.chunk.type = "ToolCall" THEN
        on_tool_call(item.chunk.name, item.chunk.arguments, l)
    ELSE \* Done
        Locals(l.accumulated_text, l.accumulated_reasoning, l.current_state,
               l.emitted, TRUE)

\* (mutant of history_after) the assistant message is pushed whatever the text
history_after_Always(history, t) ==
    Append(history, ChatMessage("assistant", t))

\* the history once the loop is left: the assistant message is pushed when
\* the accumulated text is not empty
history_after(history, t) ==
    IF t # <<>> THEN Append(history, ChatMessage("assistant", t)) ELSE history

\* the TurnComplete message
turn_complete(n, t, state) ==
    AgentMessage_TurnComplete(n, t, extract_choices(t), state)

---------------------------------------------------------------------------
(* One call of process_action on an Agent, after Agent::new() and maybe     *)
(* start_new_game.  Each action runs from one await to the next.           *)

\* the lines the response bodies of a turn are made of
TurnLines ==
    {<<"D0", m, "\n">> :
        m \in {"M_choices12", "M_choice3", "M_think",
               "M_tool_set_time", "M_tool_set_time_dusk", "M_tool_two",
               "M_tool_outfit_missing",
               "M_tool_time_not_string", "M_tool_location_wrong_key",
               "M_tool_unknown"}}
    \cup {<<"D1", "}", "\n">>, <<"\n">>}

TurnBodies == BodiesOf(TurnLines, MaxLines)

\* the calls of process_action: the action text and the turn_number passed
Calls == {<<S_look, 0>>, <<S_wait, 1>>}

TurnInit ==
    /\ NoTransport
    /\ NewAgent
    /\ NoChoices
    /\ NoApp
    /\ NoTool
    /\ NoLocks

\* (mutant of StartNewGame) the history is not cleared
StartNewGame_KeepsHistory ==
    /\ pc = "idle"
    /\ conversation_history # <<ChatMessage("system", create_system_prompt)>>
    /\ conversation_history' =
         Append(conversation_history, ChatMessage("system", create_system_prompt))
    /\ current_state' = InitialGameState
    /\ UNCHANGED <<pc, accumulated_text, accumulated_reasoning, emitted, turn_number>>
    /\ UNCHANGED <<transportVars, choiceVars, appVars, toolVars, lockVars>>

\* Agent::start_new_game; the caller stores the GameState returned
StartNewGame ==
    /\ pc = "idle"
    /\ conversation_history # <<ChatMessage("system", create_system_prompt)>>
    /\ conversation_history' = <<ChatMessage("system", create_system_prompt)>>
    /\ current_state' = InitialGameState
    /\ UNCHANGED <<pc, accumulated_text, accumulated_reasoning, emitted, turn_number>>
    /\ UNCHANGED <<transportVars, choiceVars, appVars, toolVars, lockVars>>

\* (mutant of ChatStreamFails) the failure is reported as an Error event
ChatStreamFails_EmitsError(action, n) ==
    /\ pc = "idle"
    /\ conversation_history' =
         Append(conversation_history,
                ChatMessage("user", format_user_message(action, current_state)))
    /\ turn_number' = n
    /\ pc' = "err"
    /\ emitted' = <<AgentMessage_Error(<<"Ollama request failed">>)>>
    /\ UNCHANGED <<current_state, accumulated_text, accumulated_reasoning>>
    /\ UNCHANGED <<transportVars, choiceVars, appVars, toolVars, lockVars>>

\* process_action up to the failure of chat_stream: the request fails or the
\* status is not a success, and the call returns the error
ChatStreamFails(action, n) ==
    /\ pc = "idle"
    /\ conversation_history' =
         Append(conversation_history,
                ChatMessage("user", format_user_message(action, current_state)))
    /\ turn_number' = n
    /\ pc' = "err"
    /\ UNCHANGED <<current_state, accumulated_text, accumulated_reasoning, emitted>>
    /\ UNCHANGED <<transportVars, choiceVars, appVars, toolVars, lockVars>>

\* (mutant of ChatStreamOpens) the user message is put in front of the history
ChatStreamOpens_PushesFront(action, n, b) ==
    /\ pc = "idle"
    /\ conversation_history' =
         <<ChatMessage("user", format_user_message(action, current_state))>>
           \o conversation_history
    /\ turn_number' = n
    /\ body' = b
    /\ pos' = 0
    /\ transport' = "open"
    /\ buffer' = <<>>
    /\ yielded' = <<>>
    /\ accumulated_text' = <<>>
    /\ accumulated_reasoning' = <<>>
    /\ emitted' = <<>>
    /\ pc' = "draining"
    /\ UNCHANGED current_state
    /\ UNCHANGED <<choiceVars, appVars, toolVars, lockVars>>

\* process_action up to the first stream.next().await: the server answers
\* with body b
ChatStreamOpens(action, n, b) ==
    /\ pc = "idle"
    /\ conversation_history' =
         Append(conversation_history,
                ChatMessage("user", format_user_message(action, current_state)))
    /\ turn_number' = n
    /\ body' = b
    /\ pos' = 0
    /\ transport' = "open"
    /\ buffer' = <<>>
    /\ yielded' = <<>>
    /\ accumulated_text' = <<>>
    /\ accumulated_reasoning' = <<>>
    /\ emitted' = <<>>
    /\ pc' = "draining"
    /\ UNCHANGED current_state
    /\ UNCHANGED <<choiceVars, appVars, toolVars, lockVars>>

\* the locals as they are
locals ==
    Locals(accumulated_text, accumulated_reasoning, current_state, emitted, FALSE)

\* the loop goes on: the locals are kept for the next stream.next().await
KeepDraining(l) ==
    /\ accumulated_text' = l.accumulated_text
    /\ accumulated_reasoning' = l.accumulated_reasoning
    /\ current_state' = l.current_state
    /\ emitted' = l.emitted
    /\ UNCHANGED <<conversation_history, pc, turn_number>>

\* (mutant of Finish) TurnComplete is emitted only with the assistant message
Finish_SkipsEmptyTurn(l) ==
    /\ accumulated_text' = l.accumulated_text
    /\ accumulated_reasoning' = l.accumulated_reasoning
    /\ current_state' = l.current_state
    /\ conversation_history' = history_after(conversation_history, l.accumulated_text)
    /\ emitted' = IF l.accumulated_text # <<>>
                  THEN Append(l.emitted,
                              turn_complete(turn_number, l.accumulated_text,
                                            l.current_state))
                  ELSE l.emitted
    /\ pc' = "ok"
    /\ UNCHANGED turn_number

\* the loop is left: the rest of process_action, to its return of Ok(())
Finish(l) ==
    /\ accumulated_text' = l.accumulated_text
    /\ accumulated_reasoning' = l.accumulated_reasoning
    /\ current_state' = l.current_state
    /\ conversation_history' = history_after(conversation_history, l.accumulated_text)
    /\ emitted' = Append(l.emitted,
                         turn_complete(turn_number, l.accumulated_text, l.current_state))
    /\ pc' = "ok"
    /\ UNCHANGED turn_number

\* the stream yields item: the body of the loop, and the rest of the call
\* when the loop is left
Consume(item) ==
    LET l == on_item(item, locals) IN
    IF l.stop THEN Finish(l) ELSE KeepDraining(l)

\* the transport hands over the next n units of the body: parse_stream either
\* awaits the next chunk or yields an item, which the loop consumes
TurnBytes(n) ==
    /\ pc = "draining"
    /\ transport = "open"
    /\ pos + n <= Len(body)
    /\ pos' = pos + n
    /\ LET r == on_bytes(buffer, SubSeq(body, pos + 1, pos + n)) IN
       /\ buffer' = r.buffer
       /\ IF r.out.some
          THEN /\ yielded' = Append(yielded, r.out.item)
               /\ Consume(r.out.item)
               \* the stream is dropped when the call returns
               /\ transport' = IF on_item(r.out.item, locals).stop
                               THEN "closed" ELSE "open"
          ELSE /\ yielded' = yielded
               /\ transport' = "open"
               /\ KeepDraining(locals)
    /\ UNCHANGED body
    /\ UNCHANGED <<choiceVars, appVars, toolVars, lockVars>>

\* the transport fails: parse_stream yields the error, the loop emits it and
\* is left
TurnTransportError ==
    /\ pc = "draining"
    /\ transport = "open"
    /\ yielded' = Append(yielded, TransportErrorItem)
    /\ Consume(TransportErrorItem)
    /\ transport' = "closed"
    /\ UNCHANGED <<body, pos, buffer>>
    /\ UNCHANGED <<choiceVars, appVars, toolVars, lockVars>>

\* the transport is closed, after the whole body or before: parse_stream
\* ends and the loop is left
TurnClose ==
    /\ pc = "draining"
    /\ transport = "open"
    /\ transport' = "closed"
    /\ Finish(locals)
    /\ UNCHANGED <<body, pos, buffer, yielded>>
    /\ UNCHANGED <<choiceVars, appVars, toolVars, lockVars>>

TurnNext ==
    \/ StartNewGame
    \/ \E c \in Calls : ChatStreamFails(c[1], c[2])
    \/ \E c \in Calls, b \in TurnBodies : ChatStreamOpens(c[1], c[2], b)
    \/ \E n \in 1..(MaxLines * 3) : TurnBytes(n)
    \/ TurnTransportError
    \/ TurnClose

SpecTurn == TurnInit /\ [][TurnNext]_vars

---------------------------------------------------------------------------
(* A session: calls of start_new_game and process_action on one Agent, one *)
(* after the other, by a caller that keeps the GameState.                  *)

\* the lines the response bodies of the turns of a session are made of: a
\* text, a tool call that succeeds, one that fails, done, and a line that
\* does not deserialize
SessionLines ==
    {<<"D0", "M_choices12", "\n">>,
     <<"D0", "M_tool_set_time", "\n">>,
     <<"D0", "M_tool_unknown", "\n">>,
     <<"D1", "}", "\n">>,
     <<"\n">>}

\* the response bodies of the turns of a session, of one line or two
SessionBodies == BodiesOf(SessionLines, 2) \ {<<>>}

\* the user messages of the history
UserMessages(history) ==
    {i \in 1..Len(history) : history[i].role = "user"}

\* process_action has returned, Ok or Err: its stream and its locals are
\* dropped, the Agent and the GameState are the caller's again
Return ==
    /\ pc \in {"ok", "err"}
    /\ pc' = "idle"
    /\ body' = <<>>
    /\ pos' = 0
    /\ transport' = "none"
    /\ buffer' = <<>>
    /\ yielded' = <<>>
    /\ accumulated_text' = <<>>
    /\ accumulated_reasoning' = <<>>
    /\ emitted' = <<>>
    /\ UNCHANGED <<conversation_history, current_state, turn_number>>
    /\ UNCHANGED <<choiceVars, appVars, toolVars, lockVars>>

\* the caller may call process_action once more
MayCall == Cardinality(UserMessages(conversation_history)) < MaxCalls

SessionNext ==
    \/ StartNewGame
    \/ \E c \in Calls : MayCall /\ ChatStreamFails(c[1], c[2])
    \/ \E c \in Calls, b \in SessionBodies :
          MayCall /\ ChatStreamOpens(c[1], c[2], b)
    \/ \E n \in 1..(MaxLines * 3) : TurnBytes(n)
    \/ TurnTransportError
    \/ TurnClose
    \/ Return

SpecSession == TurnInit /\ [][SessionNext]_vars

---------------------------------------------------------------------------
(* Properties of parse_stream, checked under SpecDecode. *)

\* the items parse_stream yields when the transport delivers b as one
\* single chunk and then closes
single_chunk_items(b) ==
    IF b = <<>> THEN <<>>
    ELSE LET r == on_bytes(<<>>, b) IN
         IF r.out.some THEN <<r.out.item>> ELSE <<>>

\* the transport delivered the whole body, without failing, and closed
WholeBodyDelivered ==
    /\ transport = "closed"
    /\ pos = Len(body)
    /\ \A i \in 1..Len(yielded) : yielded[i] # TransportErrorItem

\* every line of the body deserializes and none is done: nothing but the
\* chunking decides how far the decoder gets
PlainBody ==
    /\ Len(body) % 3 = 0
    /\ \A i \in 1..Len(body) :
        \/ i % 3 = 1 /\ body[i] = "D0"
        \/ i % 3 = 2 /\ body[i] \in MessageUnits
        \/ i % 3 = 0 /\ body[i] = "\n"

\* C1: whatever the chunking, once the transport has delivered the whole
\* body and closed, the items yielded are those yielded when the same body
\* arrives as one single chunk (stated for the bodies in which every line
\* deserializes and none is done).
C1_ChunkingIndependent ==
    (WholeBodyDelivered /\ PlainBody) => yielded = single_chunk_items(body)

\* the transport has not failed
NoTransportError ==
    /\ transport # "failed"
    /\ \A i \in 1..Len(yielded) : yielded[i] # TransportErrorItem

\* C3: a Done item is the last item parse_stream yields: nothing follows it,
\* whatever lines or chunks arrive afterwards, and a close after it adds no
\* error item (stated for the transports that do not fail).
C3_NothingAfterDone ==
    NoTransportError =>
        \A i \in 1..Len(yielded) :
            yielded[i] = OkItem(Done) => i = Len(yielded)

\* the item is the error of a line that does not deserialize
IsDecodeError(item) ==
    /\ ~item.ok
    /\ item.err # <<>>
    /\ item.err[1] = "Failed to parse JSON: "

\* C4: the error item of a malformed line is the last item parse_stream
\* yields: no later line is decoded, no further item is yielded.
C4_NothingAfterDecodeError ==
    NoTransportError =>
        \A i \in 1..Len(yielded) :
            IsDecodeError(yielded[i]) => i = Len(yielded)

\* "Night", "Dusk", "Cave"
S_Night == <<"N", "i", "g", "h", "t">>
S_Dusk == <<"D", "u", "s", "k">>

\* "reasoning: robe"
S_reasoning_robe ==
    <<"r", "e", "a", "s", "o", "n", "i", "n", "g", ":", " ", "r", "o", "b", "e">>
S_Cave == <<"C", "a", "v", "e">>
S_open_door == <<"o", "p", "e", "n", "_", "d", "o", "o", "r">>

\* For each sample content that is JSON holding a tool_calls array whose
\* first element has a string function name and an arguments value: that
\* name and those arguments, written out.
FirstToolCallOf ==
    C_tool_set_time :>
        ToolCall(S_set_time, JObj(<<[k |-> K_time, v |-> JStr(S_Night)]>>)) @@
    C_tool_set_time_dusk :>
        ToolCall(S_set_time, JObj(<<[k |-> K_time, v |-> JStr(S_Dusk)]>>)) @@
    C_tool_with_marker :>
        ToolCall(S_set_outfit,
                 JObj(<<[k |-> K_outfit, v |-> JStr(S_reasoning_robe)]>>)) @@
    C_tool_two :>
        ToolCall(S_set_location, JObj(<<[k |-> K_location, v |-> JStr(S_Cave)]>>)) @@
    C_tool_outfit_missing :>
        ToolCall(S_set_outfit, JObj(<<>>)) @@
    C_tool_time_not_string :>
        ToolCall(S_set_time, JObj(<<[k |-> K_time, v |-> JNum(<<"5">>)]>>)) @@
    C_tool_location_wrong_key :>
        ToolCall(S_set_location,
                 JObj(<<[k |-> <<"p", "l", "a", "c", "e">>, v |-> JStr(S_Cave)]>>)) @@
    C_tool_unknown :>
        ToolCall(S_open_door, JObj(<<[k |-> K_time, v |-> JStr(S_Night)]>>))

\* the units the buffer holds once the bytes of this step are appended
StepBuffer == buffer \o SubSeq(body, pos + 1, pos')

\* the line this step takes off the buffer
StepLine == SubSeq(StepBuffer, 1, newline_pos(StepBuffer))

\* this step takes a not-done line holding a usable tool call off the buffer
TakesToolCallLine ==
    /\ transport = "open"
    /\ pos' > pos
    /\ newline_pos(StepBuffer) = 3
    /\ StepLine[1] = "D0"
    /\ StepLine[2] \in MessageUnits
    /\ MessageOf[StepLine[2]].some
    /\ MessageOf[StepLine[2]].v.content \in DOMAIN FirstToolCallOf

\* C5: a step that decodes a not-done line whose content holds a usable tool
\* call yields exactly one item, the ToolCall of the first element of the
\* array, name and arguments unchanged: no TextChunk, no ReasoningChunk,
\* nothing for the other elements.
C5_FirstToolCallOnly ==
    [][TakesToolCallLine =>
         yielded' = Append(yielded,
                           OkItem(FirstToolCallOf[MessageOf[StepLine[2]].v.content]))]_vars

\* a line with two tool calls was decoded after another line, and the
\* sequence ended
C5_Witness ==
    /\ transport = "closed"
    /\ Len(body) = 6
    /\ body[5] = "M_tool_two"
    /\ Len(yielded) = 2
    /\ yielded[2] = OkItem(FirstToolCallOf[C_tool_two])

---------------------------------------------------------------------------
(* Properties of extract_choices, checked under SpecChoices. *)

\* the number whose prefix (N. N) N:) each sample line carries once trimmed,
\* 0 when it carries none, written out
PrefixNumber ==
    L_one_A :> 1 @@ L_two_B :> 2 @@ L_three_C :> 3 @@ L_three_D_padded :> 3 @@
    L_one_decimal :> 1 @@ L_ten :> 0 @@ L_two_bare :> 2 @@ L_narrative :> 0 @@
    <<>> :> 0

\* the trimmed remainder of each sample line after its prefix, written out
Remainder ==
    L_one_A :> <<"A">> @@ L_two_B :> <<"B">> @@ L_three_C :> <<"C">> @@
    L_three_D_padded :> <<"D">> @@ L_one_decimal :> <<"5", " ", "m">> @@
    L_ten :> <<>> @@ L_two_bare :> <<>> @@ L_narrative :> <<>> @@ <<>> :> <<>>

\* the text cut at its line feeds
RECURSIVE SplitLines(_)
SplitLines(t) ==
    IF \A i \in 1..Len(t) : t[i] # "\n" THEN <<t>>
    ELSE LET p == CHOOSE i \in 1..Len(t) :
                     t[i] = "\n" /\ \A j \in 1..(i - 1) : t[j] # "\n"
         IN  <<SubSeq(t, 1, p - 1)>> \o SplitLines(SubSeq(t, p + 1, Len(t)))

CarriesPrefix(l) == PrefixNumber[l] # 0

\* the lines of the text that carry a prefix, in order of appearance
NumberedLines == SelectSeq(SplitLines(text), CarriesPrefix)

\* the numbers of those lines
Numbers == [i \in 1..Len(NumberedLines) |-> PrefixNumber[NumberedLines[i]]]

\* extract_choices has returned
Extracted == choices # <<>>

\* C6: when exactly one line carries a prefix for choice 1, one for choice 2
\* and one for choice 3, in ascending order, the result is the three trimmed
\* remainders of those lines, in that order.
C6_AscendingChoices ==
    (Extracted /\ Numbers = <<1, 2, 3>>) =>
        choices = [i \in 1..3 |-> Remainder[NumberedLines[i]]]

\* the text is a narrative line followed by the lines of choices 1, 2 and 3,
\* one in each prefix form, and the three remainders were returned
C6_Witness ==
    /\ text = Join(<<L_narrative, L_one_A, L_two_B, L_three_D_padded>>)
    /\ choices = <<<<"A">>, <<"B">>, <<"D">>>>

\* C7: when exactly one line carries a prefix for each of the choices 1, 2
\* and 3, in whatever order the lines appear, element k of the result is the
\* trimmed remainder of the line prefixed with k.
C7_NumericOrder ==
    (Extracted /\ Len(Numbers) = 3 /\ {Numbers[i] : i \in 1..3} = {1, 2, 3}) =>
        \A i \in 1..3 : choices[Numbers[i]] = Remainder[NumberedLines[i]]

\* C8: the result has exactly 3 entries, and when fewer than 3 lines carry a
\* prefix it is the fixed list of defaults, whatever the text.
C8_ThreeOrDefaults ==
    Extracted =>
        /\ Len(choices) = 3
        /\ Len(NumberedLines) < 3 =>
             choices = <<S_ContinueExploring, S_ExamineSurroundings,
                         S_DifferentApproach>>

\* two numbered lines only, and the defaults were returned
C8_Witness ==
    /\ text = Join(<<L_one_A, L_two_B>>)
    /\ choices = <<S_ContinueExploring, S_ExamineSurroundings,
                   S_DifferentApproach>>

---------------------------------------------------------------------------
(* Properties of process_action, checked under SpecTurn. *)

\* the positions of the events of this type among those emitted
EventsOfType(type) == {i \in 1..Len(emitted) : emitted[i].type = type}

\* C2: when process_action has returned Ok, it has emitted exactly one
\* TurnComplete, that event is the last one emitted, and its choice list has
\* exactly 3 elements, whatever items the stream delivered and whether or
\* not a Done item was among them.
C2_OneTurnCompleteLast ==
    pc = "ok" =>
        /\ emitted # <<>>
        /\ EventsOfType("TurnComplete") = {Len(emitted)}
        /\ Len(emitted[Len(emitted)].choices) = 3

\* the stream delivered two text chunks and ended without a Done item; the
\* call returned Ok with the TurnComplete of the three choices last
C2_Witness ==
    /\ pc = "ok"
    /\ body = <<"D0", "M_choices12", "\n", "D0", "M_choice3", "\n">>
    /\ yielded = <<OkItem(TextChunk(C_choices12)), OkItem(TextChunk(C_choice3))>>
    /\ Len(emitted) = 3
    /\ emitted[3].type = "TurnComplete"
    /\ emitted[3].choices = <<<<"A">>, <<"B">>, <<"C">>>>

\* this step takes a not-done line off the buffer whose message content is
\* one of contents
TakesLineHolding(contents) ==
    /\ pc = "draining"
    /\ transport = "open"
    /\ pos' > pos
    /\ newline_pos(StepBuffer) = 3
    /\ StepLine[1] = "D0"
    /\ StepLine[2] \in MessageUnits
    /\ MessageOf[StepLine[2]].some
    /\ MessageOf[StepLine[2]].v.content \in contents

\* the content of the line this step takes off the buffer
StepContent == MessageOf[StepLine[2]].v.content

\* For each sample tool call for set_time, set_location or set_outfit whose
\* required argument is absent or is not a string: the message of the Error
\* event, written out.
MissingArgumentError ==
    C_tool_time_not_string :>
        <<"Tool execution failed: ", "Missing 'time' argument">> @@
    C_tool_location_wrong_key :>
        <<"Tool execution failed: ", "Missing 'location' argument">> @@
    C_tool_outfit_missing :>
        <<"Tool execution failed: ", "Missing 'outfit' argument">>

\* C9: a step of process_action that receives a tool call for set_time,
\* set_location or set_outfit whose required argument is absent or is not a
\* string emits the ToolCall event and then exactly one Error event whose
\* message names the missing field, emits no ToolResult, leaves GameState as
\* it was, and stays in the loop over the stream.
C9_MissingArgument ==
    [][TakesLineHolding(DOMAIN MissingArgumentError) =>
         /\ emitted' = emitted \o
              <<AgentMessage_ToolCall(FirstToolCallOf[StepContent].name,
                                      FirstToolCallOf[StepContent].arguments),
                AgentMessage_Error(MissingArgumentError[StepContent])>>
         /\ current_state' = current_state
         /\ pc' = "draining"
         /\ transport' = "open"]_vars

\* a set_outfit call without its argument was reported, and the set_time
\* call of the next line was then applied
C9_Witness ==
    /\ body = <<"D0", "M_tool_outfit_missing", "\n", "D0", "M_tool_set_time", "\n">>
    /\ Len(emitted) = 4
    /\ emitted[2] = AgentMessage_Error(MissingArgumentError[C_tool_outfit_missing])
    /\ emitted[4].type = "ToolResult"
    /\ current_state.time = S_Night

\* the Error event of a call of the tool open_door
UnknownToolError ==
    AgentMessage_Error(<<"Tool execution failed: ", "Unknown tool: ">> \o S_open_door)

\* C10: a step of process_action that receives a tool call whose name is
\* none of set_time, set_location, set_outfit emits the ToolCall event and
\* then exactly one Error event reporting the unknown tool, emits no
\* ToolResult, leaves GameState as it was, and stays in the loop over the
\* stream; and once the call has returned after such an Error, a
\* TurnComplete is the last event emitted.
C10_UnknownTool ==
    /\ [][TakesLineHolding({C_tool_unknown}) =>
            /\ emitted' = emitted \o
                 <<AgentMessage_ToolCall(S_open_door,
                                         FirstToolCallOf[C_tool_unknown].arguments),
                   UnknownToolError>>
            /\ current_state' = current_state
            /\ pc' = "draining"
            /\ transport' = "open"]_vars
    /\ []((\E i \in 1..Len(emitted) : emitted[i] = UnknownToolError) =>
            /\ pc \in {"draining", "ok"}
            /\ pc = "ok" => emitted[Len(emitted)].type = "TurnComplete")

\* an unknown tool was reported, the text of the next line was forwarded,
\* and the call returned Ok with TurnComplete last
C10_Witness ==
    /\ pc = "ok"
    /\ Len(emitted) = 4
    /\ emitted[2] = UnknownToolError
    /\ emitted[3] = AgentMessage_TextChunk(C_choices12)
    /\ emitted[4].type = "TurnComplete"

---------------------------------------------------------------------------
(* Properties of a session, checked under SpecSession. *)

\* C11: whatever calls of start_new_game and process_action came before,
\* successful or failed, start_new_game returns the GameState Morning,
\* Mysterious Room, Traveler's Cloak and leaves the history holding exactly
\* one message, the system prompt.
C11_StartNewGameResets ==
    [][StartNewGame =>
         /\ current_state' = [time |-> S_Morning, location |-> S_MysteriousRoom,
                              outfit |-> S_TravelersCloak]
         /\ Len(conversation_history') = 1
         /\ conversation_history'[1] =
              [role |-> "system", content |-> create_system_prompt]]_vars

\* start_new_game was called after a call of process_action with
\* turn_number 1 had returned
C11_Witness ==
    /\ pc = "idle"
    /\ turn_number = 1
    /\ Len(conversation_history) = 1
    /\ conversation_history[1].role = "system"
    /\ current_state = InitialGameState

\* C12: when the chat stream cannot be opened, process_action returns the
\* failure to its caller, has emitted no event at all (no Error, no
\* TurnComplete), and leaves the GameState passed in as it was.
C12_OpenFailureIsCallFailure ==
    [][(\E c \in Calls : ChatStreamFails(c[1], c[2])) =>
         /\ pc' = "err"
         /\ emitted' = <<>>
         /\ current_state' = current_state]_vars

\* the stream of the second turn could not be opened, after a first turn
\* that had set the time
C12_Witness ==
    /\ pc = "err"
    /\ emitted = <<>>
    /\ current_state.time = S_Night
    /\ Cardinality(UserMessages(conversation_history)) = 2

---------------------------------------------------------------------------
(* Properties of one call of process_action, checked under SpecTurn, where *)
(* the call starts from the GameState of Agent::new and start_new_game.    *)

\* the GameState once the tool call announced by this ToolCall event is
\* applied, written out for the sample calls: set_time with Night or Dusk,
\* set_location with Cave; every other sample call fails and changes nothing
AppliedTo(state, event) ==
    IF event.name = S_set_time
       /\ event.args = JObj(<<[k |-> K_time, v |-> JStr(S_Night)]>>)
    THEN [time |-> S_Night, location |-> state.location, outfit |-> state.outfit]
    ELSE IF event.name = S_set_time
            /\ event.args = JObj(<<[k |-> K_time, v |-> JStr(S_Dusk)]>>)
    THEN [time |-> S_Dusk, location |-> state.location, outfit |-> state.outfit]
    ELSE IF event.name = S_set_location
            /\ event.args = JObj(<<[k |-> K_location, v |-> JStr(S_Cave)]>>)
    THEN [time |-> state.time, location |-> S_Cave, outfit |-> state.outfit]
    ELSE state

\* the GameState once the tool calls announced among these events are
\* applied one at a time, in order
RECURSIVE StateAfter(_, _)
StateAfter(state, events) ==
    IF events = <<>> THEN state
    ELSE StateAfter(IF Head(events).type = "ToolCall"
                    THEN AppliedTo(state, Head(events))
                    ELSE state,
                    Tail(events))

\* the tool calls among the items yielded, and among the events emitted
IsToolCallItem(item) == item.ok /\ item.chunk.type = "ToolCall"
IsToolCallEvent(event) == event.type = "ToolCall"

\* C13: within one process_action the tool calls are announced and applied
\* in the order parse_stream yielded them; each ToolResult carries the
\* GameState with the calls up to its own applied, and TurnComplete carries
\* the GameState at the start of the call with every successful call applied
\* in that order.
C13_ToolCallsInOrder ==
    pc \in {"draining", "ok"} =>
        LET called == SelectSeq(emitted, IsToolCallEvent)
            decoded == SelectSeq(yielded, IsToolCallItem)
        IN  /\ Len(called) = Len(decoded)
            /\ \A i \in 1..Len(called) :
                 /\ called[i].name = decoded[i].chunk.name
                 /\ called[i].args = decoded[i].chunk.arguments
            /\ current_state = StateAfter(InitialGameState, emitted)
            /\ \A i \in 1..Len(emitted) :
                 /\ emitted[i].type = "ToolResult" =>
                      emitted[i].result =
                          StateAfter(InitialGameState, SubSeq(emitted, 1, i))
                 /\ emitted[i].type = "TurnComplete" =>
                      emitted[i].game_state = StateAfter(InitialGameState, emitted)

\* set_time Night and then set_time Dusk were applied: the first ToolResult
\* carries Night, the second and TurnComplete carry Dusk
C13_Witness ==
    /\ pc = "ok"
    /\ Len(emitted) = 5
    /\ emitted[2].type = "ToolResult"
    /\ emitted[2].result.time = S_Night
    /\ emitted[4].type = "ToolResult"
    /\ emitted[4].result.time = S_Dusk
    /\ emitted[5].type = "TurnComplete"
    /\ emitted[5].game_state.time = S_Dusk

\* the event is the outcome of a tool call: a ToolResult, or the Error of a
\* tool that failed
IsOutcome(event) ==
    \/ event.type = "ToolResult"
    \/ /\ event.type = "Error"
       /\ event.message # <<>>
       /\ event.message[1] = "Tool execution failed: "

\* C14: every ToolCall event is followed immediately by exactly one outcome
\* event of that call, a ToolResult of the same name or the Error of its
\* failure, before any event of a later stream item; and no outcome event is
\* emitted without its ToolCall event right before it.
C14_ToolCallThenOutcome ==
    \A i \in 1..Len(emitted) :
        /\ emitted[i].type = "ToolCall" =>
             /\ i < Len(emitted)
             /\ IsOutcome(emitted[i + 1])
             /\ emitted[i + 1].type = "ToolResult" =>
                  emitted[i + 1].name = emitted[i].name
        /\ IsOutcome(emitted[i]) =>
             /\ i > 1
             /\ emitted[i - 1].type = "ToolCall"

\* a call that failed and a call that succeeded, each announced and then
\* followed by its outcome, and the turn completed
C14_Witness ==
    /\ pc = "ok"
    /\ [i \in 1..Len(emitted) |-> emitted[i].type] =
         <<"ToolCall", "Error", "ToolCall", "ToolResult", "TurnComplete">>
    /\ emitted[1].name = S_open_door
    /\ emitted[3].name = S_set_location

\* the contents of the TextChunk events among these, one after the other
RECURSIVE StoryOf(_)
StoryOf(events) ==
    IF events = <<>> THEN <<>>
    ELSE (IF Head(events).type = "TextChunk" THEN Head(events).content ELSE <<>>)
         \o StoryOf(Tail(events))

\* the user message of a call with this action on the GameState of Agent::new
\* and start_new_game, written out
UserMessageOf(action) ==
    [role |-> "user",
     content |->
       <<"Current State:\n- Time: ">> \o S_Morning
       \o <<"\n- Location: ">> \o S_MysteriousRoom
       \o <<"\n- Outfit: ">> \o S_TravelersCloak
       \o <<"\n\nPlayer Action: ">> \o action
       \o <<"\n\nContinue the story based on this action. ",
            "Remember to provide exactly 3 choices and use tools to update state if appropriate.">>]

\* the history before the call: that of Agent::new, or of start_new_game
HistoriesBefore ==
    {<<>>, <<[role |-> "system", content |-> create_system_prompt]>>}

\* C15: when process_action has returned Ok, the history is the history
\* before the call, then the formatted user message, then, only if the
\* narrative text (the contents of the TextChunk events) is not empty, one
\* assistant message whose content is exactly that text; no message holds
\* the content of a reasoning fragment.
C15_HistoryExtension ==
    pc = "ok" =>
        LET story == StoryOf(emitted)
            user == UserMessageOf(IF turn_number = 0 THEN S_look ELSE S_wait)
            added == IF story # <<>>
                     THEN <<user, [role |-> "assistant", content |-> story]>>
                     ELSE <<user>>
        IN  /\ \E before \in HistoriesBefore :
                 conversation_history = before \o added
            /\ \A i \in 1..Len(emitted) :
                 emitted[i].type = "ReasoningChunk" =>
                     \A j \in 1..Len(conversation_history) :
                         ~contains(conversation_history[j].content,
                                   emitted[i].content)

\* a reasoning fragment and a text were forwarded; the history holds the
\* system prompt, the user message and the text as assistant message
C15_Witness ==
    /\ pc = "ok"
    /\ [i \in 1..Len(emitted) |-> emitted[i].type] =
         <<"ReasoningChunk", "TextChunk", "TurnComplete">>
    /\ Len(conversation_history) = 3
    /\ conversation_history[3] = [role |-> "assistant", content |-> C_choices12]

\* no Done item was yielded
NoDoneYet == \A i \in 1..Len(yielded) : yielded[i] # OkItem(Done)

\* C16: when the transport is dropped mid-stream, by failing or by closing,
\* before any done line was decoded, process_action emits no Error event for
\* it: the step emits one TurnComplete, built from the narrative text
\* accumulated so far, and nothing else, and the call returns Ok.
C16_DropEndsTurnQuietly ==
    [][((TurnTransportError \/ TurnClose) /\ NoDoneYet) =>
         /\ pc' = "ok"
         /\ Len(emitted') = Len(emitted) + 1
         /\ SubSeq(emitted', 1, Len(emitted)) = emitted
         /\ emitted'[Len(emitted')].type = "TurnComplete"
         /\ emitted'[Len(emitted')].story_text = StoryOf(emitted)]_vars

\* the Error event of an error item of the stream
IsStreamError(event) ==
    /\ event.type = "Error"
    /\ event.message # <<>>
    /\ event.message[1] = "Stream error: "

\* C17: a step in which the stream yields an error item emits one Error
\* event for it and leaves the loop: the step ends with the TurnComplete of
\* the text accumulated before the error, the GameState is as it was, the
\* stream is dropped and the call returns Ok; hence an Error event of the
\* stream is only ever followed by TurnComplete, and no later stream item is
\* forwarded or applied.
C17_ErrorItemEndsTurn ==
    /\ [][(pc = "draining" /\ Len(yielded') = Len(yielded) + 1
           /\ ~yielded'[Len(yielded')].ok) =>
            /\ Len(emitted') = Len(emitted) + 2
            /\ SubSeq(emitted', 1, Len(emitted)) = emitted
            /\ emitted'[Len(emitted) + 1] =
                 [type |-> "Error",
                  message |-> <<"Stream error: ">> \o yielded'[Len(yielded')].err]
            /\ emitted'[Len(emitted) + 2].type = "TurnComplete"
            /\ emitted'[Len(emitted) + 2].story_text = StoryOf(emitted)
            /\ emitted'[Len(emitted) + 2].game_state = current_state
            /\ current_state' = current_state
            /\ transport' = "closed"
            /\ pc' = "ok"]_vars
    /\ [](\A i \in 1..Len(emitted) :
            IsStreamError(emitted[i]) =>
                /\ i = Len(emitted) - 1
                /\ emitted[Len(emitted)].type = "TurnComplete")

\* a line that does not deserialize came first and a set_time call after it:
\* the Error and TurnComplete were emitted, the call was not applied
C17_Witness ==
    /\ pc = "ok"
    /\ body = <<"\n", "D0", "M_tool_set_time", "\n">>
    /\ pos = Len(body)
    /\ [i \in 1..Len(emitted) |-> emitted[i].type] = <<"Error", "TurnComplete">>
    /\ emitted[1].message[2] = "Failed to parse JSON: "
    /\ current_state = InitialGameState

---------------------------------------------------------------------------
(* The classification of a line, checked under SpecDecode. *)

\* the sample contents that begin with the reasoning marker token or contain
\* the reasoning marker substring, and hold no usable tool call
ReasoningContents == {C_think, C_reasoning}

\* the sample contents that are not empty, hold no usable tool call and
\* carry no reasoning marker
TextContents ==
    {C_narrative, C_choices12, C_choice3, C_number, C_tool_first_unnamed,
     C_tool_name_not_string, C_tool_no_arguments, C_tool_empty_array,
     C_tool_not_array, C_json_other, C_json_broken}

\* the items a not-done line with this message must make parse_stream
\* yield: the ToolCall of a usable tool call payload, whatever else the
\* content holds; otherwise a ReasoningChunk or a TextChunk of the content;
\* nothing for an empty content or a missing message
ExpectedItems(message) ==
    IF ~message.some THEN <<>>
    ELSE IF message.v.content \in DOMAIN FirstToolCallOf
         THEN <<OkItem(FirstToolCallOf[message.v.content])>>
    ELSE IF message.v.content \in ReasoningContents
         THEN <<OkItem(ReasoningChunk(message.v.content))>>
    ELSE IF message.v.content \in TextContents
         THEN <<OkItem(TextChunk(message.v.content))>>
    ELSE <<>>

\* this step takes a not-done line that deserializes off the buffer
TakesNotDoneLine ==
    /\ transport = "open"
    /\ pos' > pos
    /\ newline_pos(StepBuffer) = 3
    /\ StepLine[1] = "D0"
    /\ StepLine[2] \in MessageUnits

\* C18: a step that decodes a not-done line yields exactly the one outcome
\* of the fixed order: ToolCall for a usable tool call payload, else
\* ReasoningChunk for a non-empty content with a reasoning marker, else
\* TextChunk for any other non-empty content, and nothing, the decoder
\* reading on, for an empty content or a missing message.
C18_ClassificationOrder ==
    [][TakesNotDoneLine =>
         /\ yielded' = yielded \o ExpectedItems(MessageOf[StepLine[2]])
         /\ transport' = "open"]_vars

\* a tool call whose argument holds the reasoning marker, then a text with
\* the marker: a ToolCall and a ReasoningChunk were yielded
C18_Witness ==
    /\ body = <<"D0", "M_tool_with_marker", "\n", "D0", "M_reasoning", "\n">>
    /\ yielded = <<OkItem(FirstToolCallOf[C_tool_with_marker]),
                   OkItem(ReasoningChunk(C_reasoning))>>

---------------------------------------------------------------------------
(* The history over a session, checked under SpecSession. *)

\* C20: across the calls of process_action, successful or failed, the
\* history is only ever extended at its end, no message of it being removed,
\* moved or altered, until start_new_game is called again; and the system
\* prompt is the only message of role system, at index 0.
C20_HistoryAppendOnly ==
    /\ [][\/ StartNewGame
          \/ /\ Len(conversation_history') >= Len(conversation_history)
             /\ SubSeq(conversation_history', 1, Len(conversation_history)) =
                  conversation_history]_vars
    /\ [](\A i \in 1..Len(conversation_history) :
            conversation_history[i].role = "system" =>
                /\ i = 1
                /\ conversation_history[i].content = create_system_prompt)

\* after start_new_game, two turns with a narrative text each: the system
\* prompt, and a user and an assistant message for each turn
C20_Witness ==
    /\ pc = "ok"
    /\ [i \in 1..Len(conversation_history) |-> conversation_history[i].role] =
         <<"system", "user", "assistant", "user", "assistant">>
---------------------------------------------------------------------------
(* The commands of main.rs over the shared AppState.  Each lock is held for
   one block of the code, so each block is one step; submit_action_stream
   holds no lock while process_action runs on its clones. *)

\* struct TurnData
TurnData(n, story_text, cs, game_state) ==
    [turn_number |-> n, story_text |-> story_text, choices |-> cs,
     game_state |-> game_state]

\* the turn start_new_game records
InitialTurn(state) ==
    TurnData(0,
             <<"You wake up in a dimly lit room. The air smells of old parchment and something... magical. Three doors stand before you, each humming with a different energy.">>,
             <<<<"Open the door radiating blue light">>,
               <<"Open the door with ancient runes carved into it">>,
               <<"Open the plain wooden door">>>>,
             state)

\* the turn the legacy submit_action records
StubTurn(n, action) ==
    TurnData(n,
             <<"You chose: '">> \o action
               \o <<"'. The path unfolds before you, revealing new mysteries and dangers. What will you do next?">>,
             <<<<"Investigate the strange sound">>,
               <<"Continue forward cautiously">>,
               <<"Rest and assess your surroundings">>>>,
             GameState(<<"Afternoon">>, <<"Enchanted Corridor">>,
                       S_TravelersCloak))

\* the items the stream of one turn yields before it ends
TurnScripts ==
    {<<>>,
     <<OkItem(TextChunk(C_choices12))>>,
     <<OkItem(FirstToolCallOf[C_tool_set_time])>>,
     <<OkItem(ToolCall(S_set_location,
                       JObj(<<[k |-> K_location, v |-> JStr(S_Cave)]>>)))>>}

RECURSIVE drain(_, _)
\* the while loop of process_action over the items of the stream
drain(items, l) ==
    IF items = <<>> \/ l.stop THEN l
    ELSE drain(Tail(items), on_item(Head(items), l))

\* process_action run to its Ok(()) on a history and a state: the history
\* and the state it leaves and the TurnComplete message it emits last
process_action(history, state, action, n, items) ==
    LET l == drain(items, Locals(<<>>, <<>>, state, <<>>, FALSE))
    IN  [conversation_history |->
             history_after(Append(history,
                                  ChatMessage("user",
                                              format_user_message(action, state))),
                           l.accumulated_text),
         current_state |-> l.current_state,
         complete |-> turn_complete(n, l.accumulated_text, l.current_state)]

\* the actions the player submits to submit_action_stream
PlayerActions == {S_look, S_wait}

\* the actions the player submits to the legacy submit_action, which only
\* quotes the action in the story text of its stub
StubActions == {S_look}

AppInit ==
    /\ NoTransport
    /\ NewAgent
    /\ NoChoices
    /\ NoApp
    /\ NoTool
    /\ NoLocks

\* the command start_new_game, its three locks held together
start_new_game ==
    /\ game_history' =
         <<InitialTurn(InitialGameState)>>
    /\ agent' = <<ChatMessage("system", create_system_prompt)>>
    /\ current_game_state' = InitialGameState
    /\ task' = [t \in Tasks |->
                  IF InFlight(task[t]) THEN [task[t] EXCEPT !.restarted = TRUE]
                  ELSE task[t]]
    /\ UNCHANGED <<transportVars, agentVars, choiceVars, toolVars, lockVars>>

\* the command submit_action
submit_action(action) ==
    /\ Len(game_history) < MaxRecords
    /\ game_history' = Append(game_history, StubTurn(Len(game_history), action))
    /\ UNCHANGED <<agent, current_game_state, task, transportVars, agentVars,
                   choiceVars, toolVars, lockVars>>

\* submit_action_stream: the turn number is read off game_history
ReadTurnNumber(t, action) ==
    /\ task[t].pc = "idle"
    /\ Len(game_history) < MaxRecords
    /\ task' = [u \in Tasks |->
                  IF u = t
                  THEN [IdleTask EXCEPT !.pc = "counted",
                                        !.action = action,
                                        !.turn_number = Len(game_history),
                                        !.overlapped =
                                            \E v \in Tasks : InFlight(task[v])]
                  ELSE IF InFlight(task[u])
                  THEN [task[u] EXCEPT !.overlapped = TRUE]
                  ELSE task[u]]
    /\ UNCHANGED <<game_history, agent, current_game_state, transportVars,
                   agentVars, choiceVars, toolVars, lockVars>>

\* submit_action_stream: the shared agent is cloned, its lock released
CloneAgent(t) ==
    /\ task[t].pc = "counted"
    /\ task' = [task EXCEPT ![t].pc = "cloned", ![t].agent = agent,
                            ![t].from_agent = agent]
    /\ UNCHANGED <<game_history, agent, current_game_state, transportVars,
                   agentVars, choiceVars, toolVars, lockVars>>

\* submit_action_stream: the shared game state is cloned, its lock released,
\* and process_action is called on the clones
CloneState(t) ==
    /\ task[t].pc = "cloned"
    /\ task' = [task EXCEPT ![t].pc = "running",
                            ![t].current_state = current_game_state,
                            ![t].from_state = current_game_state]
    /\ UNCHANGED <<game_history, agent, current_game_state, transportVars,
                   agentVars, choiceVars, toolVars, lockVars>>

\* (mutant of ProcessActionFails) the clone of the agent, which holds the
\* user message of the failed call, is stored all the same
ProcessActionFails_StoresAgent(t) ==
    /\ task[t].pc = "running"
    /\ task' = [task EXCEPT ![t] = Returned(task[t], "Err")]
    /\ agent' = Append(task[t].agent,
                       ChatMessage("user",
                                   format_user_message(task[t].action,
                                                       task[t].current_state)))
    /\ UNCHANGED <<game_history, current_game_state, transportVars,
                   agentVars, choiceVars, toolVars, lockVars>>

\* process_action returns Err: nothing is recorded, nothing is stored
ProcessActionFails(t) ==
    /\ task[t].pc = "running"
    /\ task' = [task EXCEPT ![t] = Returned(task[t], "Err")]
    /\ UNCHANGED <<game_history, agent, current_game_state, transportVars,
                   agentVars, choiceVars, toolVars, lockVars>>

\* process_action returns Ok: the callback has recorded the TurnComplete
\* message in game_history
ProcessActionCompletes(t, items) ==
    /\ task[t].pc = "running"
    /\ LET r == process_action(task[t].agent, task[t].current_state,
                               task[t].action, task[t].turn_number, items)
       IN  /\ game_history' =
                 Append(game_history,
                        TurnData(r.complete.turn_number, r.complete.story_text,
                                 r.complete.choices, r.complete.game_state))
           /\ task' = [task EXCEPT ![t].pc = "returned",
                                   ![t].result = "Ok",
                                   ![t].agent = r.conversation_history,
                                   ![t].current_state = r.current_state]
    /\ UNCHANGED <<agent, current_game_state, transportVars, agentVars,
                   choiceVars, toolVars, lockVars>>

\* submit_action_stream: the clone of the agent replaces the shared agent
StoreAgent(t) ==
    /\ task[t].pc = "returned"
    /\ agent' = task[t].agent
    /\ task' = [task EXCEPT ![t].pc = "stored"]
    /\ UNCHANGED <<game_history, current_game_state, transportVars, agentVars,
                   choiceVars, toolVars, lockVars>>

\* submit_action_stream: the clone of the state replaces the shared state,
\* and the command returns
StoreState(t) ==
    /\ task[t].pc = "stored"
    /\ current_game_state' = task[t].current_state
    /\ task' = [task EXCEPT ![t] = Returned(task[t], "Ok")]
    /\ UNCHANGED <<game_history, agent, transportVars, agentVars, choiceVars, toolVars, lockVars>>

AppNext ==
    \/ start_new_game
    \/ \E a \in StubActions : submit_action(a)
    \/ \E t \in Tasks, a \in PlayerActions : ReadTurnNumber(t, a)
    \/ \E t \in Tasks : CloneAgent(t)
    \/ \E t \in Tasks : CloneState(t)
    \/ \E t \in Tasks : ProcessActionFails(t)
    \/ \E t \in Tasks, items \in TurnScripts : ProcessActionCompletes(t, items)
    \/ \E t \in Tasks : StoreAgent(t)
    \/ \E t \in Tasks : StoreState(t)

SpecApp == AppInit /\ [][AppNext]_vars

\* C19: submit_action_stream serializes the invocations of process_action
\* against the session's state: at no time are two invocations that started
\* from the same shared agent history and game state in progress together.
C19_InvocationsSerialized ==
    \A t1, t2 \in Tasks :
        (t1 # t2 /\ task[t1].pc = "running" /\ task[t2].pc = "running") =>
            ~(/\ task[t1].agent = task[t2].agent
              /\ task[t1].current_state = task[t2].current_state)

---------------------------------------------------------------------------
(* Agent::execute_tool as a function of the tool name, the arguments and the
   state, called again and again on the state the call before left. *)

\* "Teatime", a time outside Morning, Afternoon, Evening, Night
S_Teatime == <<"T", "e", "a", "t", "i", "m", "e">>

\* the tool names the model sends
ToolNames == {S_set_time, S_set_location, S_set_outfit, S_open_door}

\* the keys of the arguments
ToolKeys == {K_time, K_location, K_outfit}

\* the strings the arguments carry; the empty string is one of them
ToolStrings == {S_Teatime, S_Cave, <<>>}

\* the members written after the first one in the arguments: none, or one
\* under a key no tool reads
MoreMembers == {<<>>, <<[k |-> K_name, v |-> JStr(S_TravelersCloak)]>>}

\* the arguments the model sends: one string member, then maybe another
\* member; a member that is no string; no member; no object
ToolArguments ==
    {JObj(<<[k |-> key, v |-> JStr(s)]>> \o more) :
         key \in ToolKeys, s \in ToolStrings, more \in MoreMembers}
    \cup {JObj(<<[k |-> key, v |-> JBool(TRUE)]>>) : key \in ToolKeys}
    \cup {JObj(<<>>), JNull}

ToolInit ==
    /\ NoTransport
    /\ NewAgent
    /\ NoChoices
    /\ NoApp
    /\ NoTool
    /\ NoLocks

\* one call of execute_tool on the state
ExecuteTool(tool_name, args) ==
    LET done == execute_tool(tool_name, args, tool_state) IN
    /\ tool_call' = [name |-> tool_name, arguments |-> args]
    /\ tool_state' = done.state
    /\ tool_result' = [returned |-> TRUE, ok |-> done.ok, err |-> done.err]
    /\ UNCHANGED <<transportVars, agentVars, choiceVars, appVars, lockVars>>

ToolNext == \E tool_name \in ToolNames, args \in ToolArguments :
                ExecuteTool(tool_name, args)

SpecTool == ToolInit /\ [][ToolNext]_vars

\* each tool with the key of its argument and the field of GameState it sets
ToolFields ==
    {<<S_set_time, K_time, "time">>,
     <<S_set_location, K_location, "location">>,
     <<S_set_outfit, K_outfit, "outfit">>}

\* C21: a successful tool execution changes only its own field of GameState
\* and sets it to the argument verbatim (set_time the time, set_location the
\* location, set_outfit the outfit, the two other fields unchanged); every
\* string is accepted, set_time also taking times outside Morning, Afternoon,
\* Evening, Night.
C21_ToolSetsOwnField ==
    [][/\ \A f \in ToolFields, s \in ToolStrings, more \in MoreMembers :
            tool_call' = [name |-> f[1],
                          arguments |-> JObj(<<[k |-> f[2], v |-> JStr(s)]>> \o more)]
                => /\ tool_result'.ok
                   /\ tool_state' = [tool_state EXCEPT ![f[3]] = s]
       /\ tool_result'.ok =>
            \E f \in ToolFields, s \in ToolStrings :
                /\ tool_call'.name = f[1]
                /\ tool_state' = [tool_state EXCEPT ![f[3]] = s]]_vars

\* set_time("Teatime") has returned Ok on a state whose location an earlier
\* call had set: the time is Teatime, the two others are as they were
C21_Witness ==
    /\ tool_call = [name |-> S_set_time,
                    arguments |-> JObj(<<[k |-> K_time, v |-> JStr(S_Teatime)]>>)]
    /\ tool_result.ok
    /\ tool_state = GameState(S_Teatime, S_Cave, S_TravelersCloak)

---------------------------------------------------------------------------
(* The text of a turn, checked under SpecTurn. *)

---------------------------------------------------------------------------
(* The order of decoding, checked under SpecDecode. *)

\* the items of the complete lines of these bytes, each line decoded once,
\* in order; the bytes after the last newline are no line yet
RECURSIVE items_of_lines(_)
items_of_lines(bytes) ==
    IF newline_pos(bytes) = 0 THEN <<>>
    ELSE (IF decode_line(SubSeq(bytes, 1, newline_pos(bytes))).some
          THEN <<decode_line(SubSeq(bytes, 1, newline_pos(bytes))).item>>
          ELSE <<>>)
         \o items_of_lines(SubSeq(bytes, newline_pos(bytes) + 1, Len(bytes)))

\* a is b or a beginning of b
IsPrefix(a, b) ==
    /\ Len(a) <= Len(b)
    /\ SubSeq(b, 1, Len(a)) = a

\* the items yielded for lines: all but the error of a failed transport
LineItems(items) ==
    SelectSeq(items, LAMBDA item : item # TransportErrorItem)

\* C23: at every point of a decode, the items parse_stream has yielded for
\* lines are a prefix of the items obtained by decoding, one by one and in
\* order, the complete lines of the bytes received so far: no line is decoded
\* before it is complete, twice, or out of order, whatever the chunking.
C23_YieldedIsPrefix ==
    IsPrefix(LineItems(yielded), items_of_lines(SubSeq(body, 1, pos)))

\* the first line was decoded and the second one has arrived in part: it
\* waits in the buffer, undecoded
C23_Witness ==
    /\ body = <<"D0", "M_choices12", "\n", "D0", "M_choice3", "\n">>
    /\ pos = 5
    /\ buffer = <<"D0", "M_choice3">>
    /\ yielded = <<OkItem(TextChunk(C_choices12))>>

---------------------------------------------------------------------------
(* The commands of main.rs, checked under SpecApp. *)

\* C24: in every reachable state, under any interleaving of start_new_game,
\* submit_action and submit_action_stream, the record at index i of
\* game_history (counted from 0) has turn_number i, so that get_turn(n)
\* answers the turn numbered n whenever it succeeds.
C24_TurnNumberIsIndex ==
    \A i \in 1..Len(game_history) : game_history[i].turn_number = i - 1

\* the messages the turn of this invocation added to its clone of the history
TurnMessages(invocation) ==
    SubSeq(invocation.agent, Len(invocation.from_agent) + 1, Len(invocation.agent))

\* history holds the messages a at i and the messages b at j, apart
HoldsBothAt(history, a, i, b, j) ==
    /\ i + Len(a) - 1 <= Len(history)
    /\ j + Len(b) - 1 <= Len(history)
    /\ SubSeq(history, i, i + Len(a) - 1) = a
    /\ SubSeq(history, j, j + Len(b) - 1) = b
    /\ (i + Len(a) <= j \/ j + Len(b) <= i)

\* the fields of GameState
Fields == {"time", "location", "outfit"}

\* C25: when two submit_action_stream commands on the same session overlap
\* and both succeed, no outcome is lost: at the step at which the second of
\* them returns, the shared history holds the user and assistant messages of
\* both turns, and the shared game state holds the field either turn's tools
\* have set (where the two turns set different fields, both).
C25_NoOutcomeLost ==
    [][(/\ \E t \in Tasks : task[t].pc # "done"
        /\ \A t \in Tasks :
              /\ task'[t].pc = "done"
              /\ task'[t].result = "Ok"
              /\ task'[t].overlapped
              /\ ~task'[t].restarted)
       => /\ \E i, j \in 1..(Len(agent') + 1) :
                HoldsBothAt(agent', TurnMessages(task'[1]), i,
                            TurnMessages(task'[2]), j)
          /\ \A t, u \in Tasks, f \in Fields :
                (/\ t # u
                 /\ task'[t].current_state[f] # task'[t].from_state[f]
                 /\ task'[u].current_state[f] = task'[u].from_state[f])
                    => current_game_state'[f] = task'[t].current_state[f]]_vars

\* this step is a step of the invocation t
StepOf(t) == task'[t].pc # task[t].pc

\* C28: submit_action_stream commits only on success.  No step of a command
\* whose process_action returns an error changes the shared agent, the
\* shared game state or game_history.  Of a command whose process_action
\* returns success, one step appends exactly one TurnData record (that of
\* the turn) to game_history and no other step changes game_history, one
\* step replaces the shared agent by the history of the turn, and the step
\* at which it returns replaces the shared game state by that of the turn.
C28_CommitsOnlyOnSuccess ==
    [][\A t \in Tasks :
         StepOf(t) =>
            /\ task'[t].result # "Ok" =>
                  UNCHANGED <<game_history, agent, current_game_state>>
            /\ (task[t].pc = "running" /\ task'[t].result = "Ok") =>
                  /\ Len(game_history') = Len(game_history) + 1
                  /\ SubSeq(game_history', 1, Len(game_history)) = game_history
                  /\ game_history'[Len(game_history')].turn_number =
                        task[t].turn_number
                  /\ game_history'[Len(game_history')].game_state =
                        task'[t].current_state
                  /\ UNCHANGED <<agent, current_game_state>>
            /\ task[t].pc = "returned" =>
                  /\ agent' = task[t].agent
                  /\ UNCHANGED <<game_history, current_game_state>>
            /\ task[t].pc = "stored" =>
                  /\ task'[t].pc = "done"
                  /\ current_game_state' = task[t].current_state
                  /\ UNCHANGED <<game_history, agent>>]_vars

\* one command has returned an error and the other one success, on the
\* AppState main() built: game_history holds the one record of the turn that
\* succeeded, the shared agent and state are those of that turn
C28_Witness ==
    /\ task[1].pc = "done" /\ task[1].result = "Err"
    /\ task[2].pc = "done" /\ task[2].result = "Ok"
    /\ Len(game_history) = 1
    /\ agent = task[2].agent
    /\ Len(agent) = 2
    /\ current_game_state = task[2].current_state
    /\ current_game_state.time = S_Night

\* C29: a streaming turn that started before a start_new_game never
\* overwrites the new session: once start_new_game has run while a
\* submit_action_stream was in flight, no later step of that command changes
\* the shared conversation history, the shared game state or game_history,
\* so that when both have finished these are the system prompt alone, the
\* initial state and the turn 0 record alone.
C29_StaleTurnWritesNothing ==
    [][\A t \in Tasks :
         (StepOf(t) /\ task[t].restarted) =>
            UNCHANGED <<game_history, agent, current_game_state>>]_vars

---------------------------------------------------------------------------
(* A call that fails, checked under SpecSession. *)

\* C27: when process_action fails to open the stream, the conversation
\* history of the Agent is left exactly as it was before the call, so that
\* a retry of the turn on the same Agent sends the user message of the
\* action only once.
C27_FailedOpenLeavesHistory ==
    [][(pc = "idle" /\ pc' = "err") =>
         conversation_history' = conversation_history]_vars

---------------------------------------------------------------------------
(* The Mutex of AppState.  Each command is the sequence of its lock() calls,
   of the ends of the scopes of the guards, and, for submit_action_stream,
   of the await of process_action; threads invoke commands at any time. *)

Lock(m) == [op |-> "lock", m |-> m]
Unlock(m) == [op |-> "unlock", m |-> m]
Await == [op |-> "await", m |-> "none"]

\* (mutant of submit_action_stream_steps) the guard of the agent is kept
\* across the await and the callback
submit_action_stream_steps_HoldsAgent ==
    <<Lock("game_history"), Unlock("game_history"),
      Lock("agent"),
      Lock("current_game_state"), Unlock("current_game_state"),
      Await,
      Lock("game_history"), Unlock("game_history"),
      Unlock("agent"),
      Lock("current_game_state"), Unlock("current_game_state")>>

\* submit_action_stream: each guard lives in its own block; the await holds
\* none; the callback takes game_history; the results are stored under the
\* agent guard, then under the state guard
submit_action_stream_steps ==
    <<Lock("game_history"), Unlock("game_history"),
      Lock("agent"), Unlock("agent"),
      Lock("current_game_state"), Unlock("current_game_state"),
      Await,
      Lock("game_history"), Unlock("game_history"),
      Lock("agent"), Unlock("agent"),
      Lock("current_game_state"), Unlock("current_game_state")>>

\* the steps of each command; guards are dropped at the end of the function
\* in the reverse order of their declaration
Steps ==
    [start_new_game |->
         <<Lock("game_history"), Lock("agent"), Lock("current_game_state"),
           Unlock("current_game_state"), Unlock("agent"), Unlock("game_history")>>,
     get_turn |-> <<Lock("game_history"), Unlock("game_history")>>,
     submit_action |-> <<Lock("game_history"), Unlock("game_history")>>,
     submit_action_stream |-> submit_action_stream_steps,
     get_ollama_config |-> <<Lock("ollama_config"), Unlock("ollama_config")>>,
     set_ollama_config |-> <<Lock("ollama_config"), Unlock("ollama_config")>>]

Commands == DOMAIN Steps

\* the thread runs a command
Running(th) == thread[th].command # "none"

\* the step the thread is to take next; Await when it runs nothing, so that
\* the record is defined
NextStep(th) ==
    IF Running(th) /\ thread[th].at <= Len(Steps[thread[th].command])
    THEN Steps[thread[th].command][thread[th].at]
    ELSE Await

\* the thread is past the step
Advance(th) == thread' = [thread EXCEPT ![th].at = @ + 1]

LocksInit ==
    /\ NoTransport
    /\ NewAgent
    /\ NoChoices
    /\ NoApp
    /\ NoTool
    /\ NoLocks

\* the frontend invokes a command
Invoke(th, c) ==
    /\ ~Running(th)
    /\ thread' = [thread EXCEPT ![th] = [command |-> c, at |-> 1]]
    /\ UNCHANGED mutex
    /\ UNCHANGED <<transportVars, agentVars, choiceVars, appVars, toolVars>>

\* lock() returns: the Mutex was free
Acquire(th) ==
    /\ Running(th)
    /\ NextStep(th).op = "lock"
    /\ mutex[NextStep(th).m] = 0
    /\ mutex' = [mutex EXCEPT ![NextStep(th).m] = th]
    /\ Advance(th)
    /\ UNCHANGED <<transportVars, agentVars, choiceVars, appVars, toolVars>>

\* the guard goes out of scope
Release(th) ==
    /\ Running(th)
    /\ NextStep(th).op = "unlock"
    /\ mutex' = [mutex EXCEPT ![NextStep(th).m] = 0]
    /\ Advance(th)
    /\ UNCHANGED <<transportVars, agentVars, choiceVars, appVars, toolVars>>

\* the stream has ended and process_action emits TurnComplete
StreamEnds(th) ==
    /\ Running(th)
    /\ thread[th].at <= Len(Steps[thread[th].command])
    /\ NextStep(th).op = "await"
    /\ Advance(th)
    /\ UNCHANGED mutex
    /\ UNCHANGED <<transportVars, agentVars, choiceVars, appVars, toolVars>>

\* process_action returns Err: no callback, nothing stored; the guards still
\* held, if any, are dropped with the function
StreamFails(th) ==
    /\ Running(th)
    /\ thread[th].at <= Len(Steps[thread[th].command])
    /\ NextStep(th).op = "await"
    /\ thread' = [thread EXCEPT ![th] = [command |-> "none", at |-> 0]]
    /\ mutex' = [m \in Mutexes |-> IF mutex[m] = th THEN 0 ELSE mutex[m]]
    /\ UNCHANGED <<transportVars, agentVars, choiceVars, appVars, toolVars>>

\* the command returns
Finished(th) ==
    /\ Running(th)
    /\ thread[th].at > Len(Steps[thread[th].command])
    /\ thread' = [thread EXCEPT ![th] = [command |-> "none", at |-> 0]]
    /\ UNCHANGED mutex
    /\ UNCHANGED <<transportVars, agentVars, choiceVars, appVars, toolVars>>

LocksNext ==
    \/ \E th \in Threads, c \in Commands : Invoke(th, c)
    \/ \E th \in Threads : Acquire(th)
    \/ \E th \in Threads : Release(th)
    \/ \E th \in Threads : StreamEnds(th)
    \/ \E th \in Threads : StreamFails(th)
    \/ \E th \in Threads : Finished(th)

SpecLocks == LocksInit /\ [][LocksNext]_vars

\* Every thread goes on when it can: a guard is dropped, a command returns,
\* and a lock() that finds the Mutex free again and again returns.  Nothing
\* is assumed of the stream: an await may last for ever.
FairSpecLocks ==
    /\ SpecLocks
    /\ \A th \in Threads :
          /\ WF_vars(Release(th))
          /\ WF_vars(Finished(th))
          /\ SF_vars(Acquire(th))

\* the Mutex the thread holds
Held(th) == {m \in Mutexes : mutex[m] = th}

\* the thread is in lock()
InLock(th) ==
    /\ Running(th)
    /\ NextStep(th).op = "lock"

\* the thread is in lock(), and a thread holds the Mutex
Blocked(th) ==
    /\ InLock(th)
    /\ mutex[NextStep(th).m] # 0

\* the stream of the thread is being awaited
Awaiting(th) ==
    /\ Running(th)
    /\ thread[th].at <= Len(Steps[thread[th].command])
    /\ NextStep(th).op = "await"

RECURSIVE WaitsForRunnable(_, _)
\* following who holds what the thread waits for, at most k times, leads to
\* a thread that is not in lock()
WaitsForRunnable(th, k) ==
    IF ~Blocked(th) THEN TRUE
    ELSE IF k = 0 THEN FALSE
    ELSE WaitsForRunnable(mutex[NextStep(th).m], k - 1)

====
